---- MODULE Spec2Model ----
(***************************************************************************)
(* A model of the collaborative editing session of rustpad-server:         *)
(* rustpad.rs (the session, its connection handlers and the edit path)     *)
(* and the persister of lib.rs, over the operational-transformation        *)
(* primitive the session is built on.                                      *)
(***************************************************************************)
EXTENDS Integers, Sequences, FiniteSets, TLC

(***************************************************************************)
(* Texts.  A text is a sequence of runs [ch, n]: n >= 1 copies of the      *)
(* character ch, no two neighbouring runs of the same character, so that   *)
(* equal strings have equal representations and a text of 262,144          *)
(* characters is one record.  Lengths are counted in characters.           *)
(***************************************************************************)
Min(a, b) == IF a < b THEN a ELSE b

Run(c, k) == IF k = 0 THEN <<>> ELSE <<[ch |-> c, n |-> k]>>

RECURSIVE TLen(_)
TLen(t) == IF t = <<>> THEN 0 ELSE Head(t).n + TLen(Tail(t))

TCat(a, b) ==
    IF a = <<>> THEN b
    ELSE IF b = <<>> THEN a
    ELSE IF a[Len(a)].ch = Head(b).ch
         THEN SubSeq(a, 1, Len(a) - 1)
              \o <<[ch |-> Head(b).ch, n |-> a[Len(a)].n + Head(b).n]>>
              \o Tail(b)
         ELSE a \o b

RECURSIVE TTake(_, _)
TTake(t, k) ==
    IF k = 0 \/ t = <<>> THEN <<>>
    ELSE IF Head(t).n <= k
         THEN TCat(<<Head(t)>>, TTake(Tail(t), k - Head(t).n))
         ELSE <<[ch |-> Head(t).ch, n |-> k]>>

RECURSIVE TDrop(_, _)
TDrop(t, k) ==
    IF k = 0 \/ t = <<>> THEN t
    ELSE IF Head(t).n <= k
         THEN TDrop(Tail(t), k - Head(t).n)
         ELSE <<[ch |-> Head(t).ch, n |-> Head(t).n - k]>> \o Tail(t)

(***************************************************************************)
(* OperationSeq.  An operation is the sequence of its components, each     *)
(* [k, n, s]: k = "retain" or "delete" with the count n, or k = "insert"   *)
(* with the inserted text s.  base_len and target_len are the sums the     *)
(* builder keeps.                                                          *)
(***************************************************************************)
Retain(n) == [k |-> "retain", n |-> n, s |-> <<>>]
Delete(n) == [k |-> "delete", n |-> n, s |-> <<>>]
Insert(s) == [k |-> "insert", n |-> 0, s |-> s]

RECURSIVE base_len(_)
base_len(o) ==
    IF o = <<>> THEN 0
    ELSE (IF Head(o).k = "insert" THEN 0 ELSE Head(o).n) + base_len(Tail(o))

RECURSIVE target_len(_)
target_len(o) ==
    IF o = <<>> THEN 0
    ELSE (CASE Head(o).k = "insert" -> TLen(Head(o).s)
            [] Head(o).k = "retain" -> Head(o).n
            [] OTHER -> 0) + target_len(Tail(o))

\* OperationSeq::retain: a zero count is dropped, a trailing retain is extended.
OpRetain(o, n) ==
    IF n = 0 THEN o
    ELSE IF o # <<>> /\ o[Len(o)].k = "retain"
         THEN [o EXCEPT ![Len(o)].n = @ + n]
         ELSE Append(o, Retain(n))

\* OperationSeq::delete: a zero count is dropped, a trailing delete is extended.
OpDelete(o, n) ==
    IF n = 0 THEN o
    ELSE IF o # <<>> /\ o[Len(o)].k = "delete"
         THEN [o EXCEPT ![Len(o)].n = @ + n]
         ELSE Append(o, Delete(n))

\* OperationSeq::insert: an empty string is dropped; the insert joins a
\* trailing insert, also across one trailing delete, and otherwise goes
\* before a trailing delete.
OpInsert(o, s) ==
    IF s = <<>> THEN o
    ELSE IF o # <<>> /\ o[Len(o)].k = "insert"
         THEN [o EXCEPT ![Len(o)].s = TCat(@, s)]
    ELSE IF Len(o) >= 2 /\ o[Len(o)].k = "delete" /\ o[Len(o) - 1].k = "insert"
         THEN [o EXCEPT ![Len(o) - 1].s = TCat(@, s)]
    ELSE IF o # <<>> /\ o[Len(o)].k = "delete"
         THEN SubSeq(o, 1, Len(o) - 1) \o <<Insert(s), o[Len(o)]>>
    ELSE Append(o, Insert(s))

\* The operation a client sends, built component by component as the
\* deserializer does.
RECURSIVE FromComponents(_, _)
FromComponents(cs, acc) ==
    IF cs = <<>> THEN acc
    ELSE FromComponents(Tail(cs),
            CASE Head(cs).k = "retain" -> OpRetain(acc, Head(cs).n)
              [] Head(cs).k = "delete" -> OpDelete(acc, Head(cs).n)
              [] OTHER -> OpInsert(acc, Head(cs).s))

Op(cs) == FromComponents(cs, <<>>)

\* OperationSeq::apply: Err when the string's length is not base_len.
RECURSIVE ApplyFrom(_, _, _)
ApplyFrom(o, rest, out) ==
    IF o = <<>> THEN out
    ELSE CASE Head(o).k = "retain" ->
                ApplyFrom(Tail(o), TDrop(rest, Head(o).n), TCat(out, TTake(rest, Head(o).n)))
           [] Head(o).k = "delete" ->
                ApplyFrom(Tail(o), TDrop(rest, Head(o).n), out)
           [] OTHER ->
                ApplyFrom(Tail(o), rest, TCat(out, Head(o).s))

Apply(o, s) ==
    IF TLen(s) # base_len(o)
    THEN [ok |-> FALSE, text |-> <<>>]
    ELSE [ok |-> TRUE, text |-> ApplyFrom(o, s, <<>>)]

\* OperationSeq::transform: (a', b') with the left operand's insert first.
Shrink(o, m) ==
    IF Head(o).n > m THEN <<[Head(o) EXCEPT !.n = @ - m]>> \o Tail(o) ELSE Tail(o)

RECURSIVE TransformFrom(_, _, _, _)
TransformFrom(o1, o2, ap, bp) ==
    IF o1 = <<>> /\ o2 = <<>> THEN [ok |-> TRUE, a |-> ap, b |-> bp]
    ELSE IF o1 # <<>> /\ Head(o1).k = "insert"
         THEN TransformFrom(Tail(o1), o2,
                            OpInsert(ap, Head(o1).s), OpRetain(bp, TLen(Head(o1).s)))
    ELSE IF o2 # <<>> /\ Head(o2).k = "insert"
         THEN TransformFrom(o1, Tail(o2),
                            OpRetain(ap, TLen(Head(o2).s)), OpInsert(bp, Head(o2).s))
    ELSE IF o1 = <<>> \/ o2 = <<>> THEN [ok |-> FALSE, a |-> <<>>, b |-> <<>>]
    ELSE LET m == Min(Head(o1).n, Head(o2).n)
             r1 == Shrink(o1, m)
             r2 == Shrink(o2, m)
         IN  CASE Head(o1).k = "retain" /\ Head(o2).k = "retain" ->
                    TransformFrom(r1, r2, OpRetain(ap, m), OpRetain(bp, m))
               [] Head(o1).k = "delete" /\ Head(o2).k = "delete" ->
                    TransformFrom(r1, r2, ap, bp)
               [] Head(o1).k = "delete" /\ Head(o2).k = "retain" ->
                    TransformFrom(r1, r2, OpDelete(ap, m), bp)
               [] OTHER ->
                    TransformFrom(r1, r2, ap, OpDelete(bp, m))

Transform(a, b) ==
    IF base_len(a) # base_len(b)
    THEN [ok |-> FALSE, a |-> <<>>, b |-> <<>>]
    ELSE TransformFrom(a, b, <<>>, <<>>)

\* ot::transform_index: the offset a position of the old text has in the new.
RECURSIVE IndexFrom(_, _, _)
IndexFrom(o, index, new_index) ==
    IF o = <<>> THEN new_index
    ELSE LET h == Head(o)
             i2 == IF h.k = "insert" THEN index ELSE index - h.n
             n2 == CASE h.k = "retain" -> new_index
                     [] h.k = "insert" -> new_index + TLen(h.s)
                     [] OTHER -> new_index - Min(index, h.n)
         IN  IF i2 < 0 THEN n2 ELSE IndexFrom(Tail(o), i2, n2)

transform_index(operation, position) == IndexFrom(operation, position, position)

(***************************************************************************)
(* The session (struct Rustpad and its State), its connection handlers,    *)
(* kill() and the persister.                                               *)
(***************************************************************************)
None == <<>>
Some(x) == <<x>>

\* The clients send MaxFrames frames, all connections together.
MaxFrames == 2

\* The connection slots: each is one call of on_connection.
NConn == 2
Conn == 1..NConn

\* The cap of apply_edit on the length of the text an edit produces.
MAX_TARGET_LEN == 256 * 1024

\* The capacity of the broadcast channel.
BROADCAST_CAPACITY == 16

\* u64::MAX, the UserOperation.id of the operation a loaded document is
\* seeded with, written as the number it is modulo 2^64.
U64_MAX == -1

VARIABLES
    operations,     \* State.operations: Vec<UserOperation>
    text,           \* State.text
    language,       \* State.language: Option<String>
    users,          \* State.users: connection id -> UserInfo
    cursors,        \* State.cursors: connection id -> CursorData
    user_colors,    \* State.user_colors: email -> hue
    count,          \* Rustpad.count
    killed,         \* Rustpad.killed
    database,       \* Rustpad.database is Some
    notified,       \* per handler, its Notified future: "none", "armed", "notified"
    update_rx,      \* per handler, the broadcast events its receiver has not read
    pc,             \* per handler, where it is
    id,             \* per handler, its connection id
    cf_email,       \* per handler, its authenticated email
    revision,       \* per handler, the local revision of handle_connection
    result,         \* per handler, what handle_connection returned
    sent,           \* per handler, the messages sent on its socket
    kill_pc,        \* where the call of kill() is
    persist_pc,     \* where the persister is
    persist_rev,    \* the persister's local revision
    last_revision,  \* the persister's last_revision
    stored,         \* the document row of the store: Option<PersistedDocument>
    color_tasks,    \* the spawned save_user_color tasks that have not run
    db_colors,      \* the user_color table of the store
    frames,         \* the number of frames the clients will still send
    documents,      \* ServerState.documents: document id -> Document
    now,            \* the clock that Instant::now() reads
    created,        \* how many Rustpad sessions socket_handler has created
    persisters,     \* per session, how many persister tasks were spawned for it
    returned,       \* the sessions socket_handler has returned since the last remove
    acquired,       \* how many socket_handler calls have returned the first session
    cleaner_pc,     \* where the cleaner is
    keys,           \* the keys the cleaner has collected
    dropped,        \* the sessions whose Document was removed and dropped
    edit_lock,      \* per holder of the upgradable read lock of State, what it has read
    outgoing        \* per handler, the event handle_message has still to send

state == <<operations, text, language, users, cursors, user_colors>>
handlers == <<notified, update_rx, pc, id, cf_email, revision, result, sent>>
background == <<kill_pc, persist_pc, persist_rev, last_revision, stored,
                color_tasks, db_colors>>
registry == <<documents, now, created, persisters, returned, acquired,
              cleaner_pc, keys, dropped>>
vars == <<state, count, killed, database, handlers, background, frames, registry, edit_lock, outgoing>>

\* HashMap: insert and remove.
EmptyMap == [x \in {} |-> 0]
MapInsert(m, key, v) == [x \in DOMAIN m \cup {key} |-> IF x = key THEN v ELSE m[x]]
MapRemove(m, key) == [x \in DOMAIN m \ {key} |-> m[x]]

UserOperation(i, o, e) == [id |-> i, operation |-> o, email |-> e]

\* Rustpad::from_document: the text, the language and one seeding operation.
from_document(document) ==
    [operations |-> <<UserOperation(U64_MAX, OpInsert(<<>>, document.text), None)>>,
     text |-> document.text,
     language |-> document.language]

\* State::default, of Rustpad::default and Rustpad::new.
default_state == [operations |-> <<>>, text |-> <<>>, language |-> None]

\* The document id the clients ask for.
DocIds == {"doc"}

\* Document::new
Document(rustpad) == [last_accessed |-> now, rustpad |-> rustpad]

\* The Rustpad socket_handler creates: from the stored document, or empty.
InitRustpad(doc, budget) ==
    LET s == IF doc = None THEN default_state ELSE from_document(doc[1])
    IN  /\ operations = s.operations
        /\ text = s.text
        /\ language = s.language
        /\ users = EmptyMap
        /\ cursors = EmptyMap
        /\ user_colors = EmptyMap
        /\ count = 0
        /\ killed = FALSE
        /\ database = (doc # None)
        /\ notified = [c \in Conn |-> "none"]
        /\ update_rx = [c \in Conn |-> <<>>]
        /\ pc = [c \in Conn |-> "idle"]
        /\ id = [c \in Conn |-> 0]
        /\ cf_email = [c \in Conn |-> None]
        /\ revision = [c \in Conn |-> 0]
        /\ result = [c \in Conn |-> "running"]
        /\ sent = [c \in Conn |-> <<>>]
        /\ kill_pc = "idle"
        /\ persist_pc = "check"
        /\ persist_rev = 0
        /\ last_revision = 0
        /\ stored = doc
        /\ color_tasks = {}
        /\ db_colors = EmptyMap
        /\ frames = budget
        /\ edit_lock = EmptyMap
        /\ outgoing = [c \in Conn |-> None]

\* The registry before any request.
InitRegistry ==
    /\ documents = EmptyMap
    /\ now = 0
    /\ created = 0
    /\ persisters = <<>>
    /\ returned = {}
    /\ acquired = 0
    /\ cleaner_pc = "sleep"
    /\ keys = {}
    /\ dropped = {}

\* The registry once socket_handler has created the session and has
\* returned it to every connection there will be.
SessionAcquired ==
    /\ documents = [k \in DocIds |-> [last_accessed |-> 0, rustpad |-> 1]]
    /\ now = 0
    /\ created = 1
    /\ persisters = <<1>>
    /\ returned = {1}
    /\ acquired = NConn
    /\ cleaner_pc = "sleep"
    /\ keys = {}
    /\ dropped = {}

InitSession(doc, budget) == InitRustpad(doc, budget) /\ SessionAcquired

(***************************************************************************)
(* apply_edit.                                                             *)
(***************************************************************************)
\* A rebase that transforms the history against the operation, and keeps
\* the second component.
RECURSIVE RebaseSwapped(_, _)
RebaseSwapped(operation, history) ==
    IF history = <<>> THEN [ok |-> TRUE, operation |-> operation]
    ELSE LET t == Transform(Head(history).operation, operation)
         IN  IF t.ok THEN RebaseSwapped(t.b, Tail(history))
             ELSE [ok |-> FALSE, operation |-> <<>>]

\* The loop of apply_edit running over operations[revision..] from its
\* newest entry to its oldest.
RECURSIVE RebaseNewestFirst(_, _)
RebaseNewestFirst(operation, history) ==
    IF history = <<>> THEN [ok |-> TRUE, operation |-> operation]
    ELSE LET t == Transform(operation, history[Len(history)].operation)
         IN  IF t.ok
             THEN RebaseNewestFirst(t.a, SubSeq(history, 1, Len(history) - 1))
             ELSE [ok |-> FALSE, operation |-> <<>>]

\* The loop of apply_edit over operations[revision..]: the first component
\* of each transform, Err as soon as one fails.
RECURSIVE Rebase(_, _)
Rebase(operation, history) ==
    IF history = <<>> THEN [ok |-> TRUE, operation |-> operation]
    ELSE LET t == Transform(operation, Head(history).operation)
         IN  IF t.ok THEN Rebase(t.a, Tail(history))
             ELSE [ok |-> FALSE, operation |-> <<>>]

\* The loop of apply_edit over a CursorData without its inner loop over the
\* selections.
TransformCursorsOnly(operation, data) ==
    [cursors |-> [i \in DOMAIN data.cursors |->
                    transform_index(operation, data.cursors[i])],
     selections |-> data.selections]

\* The cursors and selections of one connection after the operation.
TransformCursorData(operation, data) ==
    [cursors |-> [i \in DOMAIN data.cursors |->
                    transform_index(operation, data.cursors[i])],
     selections |-> [i \in DOMAIN data.selections |->
                    <<transform_index(operation, data.selections[i][1]),
                      transform_index(operation, data.selections[i][2])>>]]

\* A revision check that also refuses the current revision.
InvalidRevisionAtLen(rev, len) == rev >= len

\* The check of the claimed revision against the history length.
InvalidRevision(rev, len) == rev > len

\* The check of the rebased operation against the cap.
TooLarge(operation) == target_len(operation) > MAX_TARGET_LEN

\* A commit that appends the operation and leaves the text as it was.
CommitKeepsText(i, operation, e, new_text) ==
    [operations |-> Append(operations, [id |-> i, operation |-> operation, email |-> e]),
     text |-> text,
     cursors |-> [k \in DOMAIN cursors |-> TransformCursorData(operation, cursors[k])]]

\* What apply_edit commits: the cursors, the history and the text.
Commit(i, operation, e, new_text) ==
    [operations |-> Append(operations, UserOperation(i, operation, e)),
     text |-> new_text,
     cursors |-> [k \in DOMAIN cursors |-> TransformCursorData(operation, cursors[k])]]

\* An apply_edit that checks the cap on the operation as it was received.
apply_edit_cap_first(i, rev, operation, e) ==
    LET len == Len(operations)
        keep == [operations |-> operations, text |-> text, cursors |-> cursors]
    IN  IF rev > len
        THEN [err |-> "InvalidRevision", new |-> keep]
        ELSE IF target_len(operation) > MAX_TARGET_LEN
        THEN [err |-> "DocumentTooLarge", new |-> keep]
        ELSE LET r == Rebase(operation, SubSeq(operations, rev + 1, len))
                 a == IF r.ok THEN Apply(r.operation, text)
                      ELSE [ok |-> FALSE, text |-> <<>>]
             IN  IF ~a.ok THEN [err |-> "OTFailure", new |-> keep]
                 ELSE [err |-> "none", new |-> Commit(i, r.operation, e, a.text)]

\* An apply_edit that transforms the cursors before it applies the
\* operation to the text.
apply_edit_cursors_first(i, rev, operation, e) ==
    LET len == Len(operations)
        keep == [operations |-> operations, text |-> text, cursors |-> cursors]
    IN  IF rev > len
        THEN [err |-> "InvalidRevision", new |-> keep]
        ELSE LET r == Rebase(operation, SubSeq(operations, rev + 1, len))
             IN  IF ~r.ok THEN [err |-> "OTFailure", new |-> keep]
                 ELSE IF target_len(r.operation) > MAX_TARGET_LEN
                      THEN [err |-> "DocumentTooLarge", new |-> keep]
                 ELSE LET a == Apply(r.operation, text)
                          moved == Commit(i, r.operation, e, a.text).cursors
                      IN  IF ~a.ok
                          THEN [err |-> "OTFailure",
                                new |-> [keep EXCEPT !.cursors = moved]]
                          ELSE [err |-> "none",
                                new |-> Commit(i, r.operation, e, a.text)]

\* apply_edit: Err with the state as it was, or Ok with what it commits.
apply_edit(i, rev, operation, e) ==
    LET len == Len(operations)
        keep == [operations |-> operations, text |-> text, cursors |-> cursors]
    IN  IF InvalidRevision(rev, len)
        THEN [err |-> "InvalidRevision", new |-> keep]
        ELSE LET r == Rebase(operation, SubSeq(operations, rev + 1, len))
             IN  IF ~r.ok THEN [err |-> "OTFailure", new |-> keep]
                 ELSE IF TooLarge(r.operation)
                      THEN [err |-> "DocumentTooLarge", new |-> keep]
                 ELSE LET a == Apply(r.operation, text)
                      IN  IF ~a.ok THEN [err |-> "OTFailure", new |-> keep]
                          ELSE [err |-> "none",
                                new |-> Commit(i, r.operation, e, a.text)]

(***************************************************************************)
(* The fan-out primitives.                                                 *)
(***************************************************************************)
\* The handlers that hold a broadcast receiver: from subscribe() until
\* handle_connection returns.
Subscribed(c) ==
    pc[c] \in {"initial", "arm", "check_killed", "check_revision",
               "send_history", "select", "commit", "send", "notify"}

\* update.send(msg): the event reaches every receiver.
Publish(msg) == [c \in Conn |-> IF Subscribed(c) THEN Append(update_rx[c], msg)
                                ELSE update_rx[c]]

\* notify.notify_waiters(): every Notified future that exists is woken.
notify_waiters == [c \in Conn |-> IF notified[c] = "armed" THEN "notified"
                                  ELSE notified[c]]

\* handle_connection returns: its socket, its receiver, its Notified future
\* and its local revision are dropped.
Return(c, r) ==
    /\ pc' = [pc EXCEPT ![c] = "remove_user"]
    /\ result' = [result EXCEPT ![c] = r]
    /\ update_rx' = [update_rx EXCEPT ![c] = <<>>]
    /\ notified' = [notified EXCEPT ![c] = "none"]
    /\ revision' = [revision EXCEPT ![c] = 0]
    /\ sent' = [sent EXCEPT ![c] = <<>>]

(***************************************************************************)
(* on_connection and handle_connection, one action per step.               *)
(***************************************************************************)
\* A client has sent a frame, and the handler takes it from the socket.
TakeFrame == frames > 0 /\ frames' = frames - 1 /\ UNCHANGED <<registry, edit_lock, outgoing>>

\* on_connection reading the counter without adding to it.
ConnectSameId(c, e) ==
    /\ pc[c] = "idle"
    /\ \A d \in Conn : d < c => pc[d] # "idle"
    /\ id' = [id EXCEPT ![c] = count]
    /\ cf_email' = [cf_email EXCEPT ![c] = e]
    /\ pc' = [pc EXCEPT ![c] = "initial"]
    /\ UNCHANGED <<state, count, killed, database, notified, update_rx,
                   revision, result, sent, background, frames, registry, edit_lock, outgoing>>

\* on_connection takes the next id; handle_connection subscribes.
Connect(c, e) ==
    /\ pc[c] = "idle"
    /\ \A d \in Conn : d < c => pc[d] # "idle"
    /\ id' = [id EXCEPT ![c] = count]
    /\ count' = count + 1
    /\ cf_email' = [cf_email EXCEPT ![c] = e]
    /\ pc' = [pc EXCEPT ![c] = "initial"]
    /\ UNCHANGED <<state, killed, database, notified, update_rx, revision,
                   result, sent, background, frames, registry, edit_lock, outgoing>>

\* The History message of send_history and send_initial.
History(start, ops) == [type |-> "History", start |-> start, operations |-> ops]

\* The keys of a map, in the order in which the map is iterated.
RECURSIVE Iter(_)
Iter(S) ==
    IF S = {} THEN <<>>
    ELSE LET k == CHOOSE x \in S : TRUE IN <<k>> \o Iter(S \ {k})

\* The ServerMsg variants other than History.
Identity(i) == [type |-> "Identity", id |-> i]
AuthenticatedEmail(e) == [type |-> "AuthenticatedEmail", email |-> e]
Language(l) == [type |-> "Language", language |-> l]
UserInfoMsg(i, info) == [type |-> "UserInfo", id |-> i, info |-> info]
UserCursor(i, data) == [type |-> "UserCursor", id |-> i, data |-> data]
UserColor(e, hue) == [type |-> "UserColor", email |-> e, hue |-> hue]

\* A send_initial that sends the language before the history.
send_initial_language_first(i, e) ==
    [msgs |->
        <<Identity(i), AuthenticatedEmail(e)>>
        \o (IF language # None THEN <<Language(language[1])>> ELSE <<>>)
        \o (IF operations # <<>> THEN <<History(0, operations)>> ELSE <<>>)
        \o [k \in DOMAIN Iter(DOMAIN users) |->
                UserInfoMsg(Iter(DOMAIN users)[k], Some(users[Iter(DOMAIN users)[k]]))]
        \o [k \in DOMAIN Iter(DOMAIN cursors) |->
                UserCursor(Iter(DOMAIN cursors)[k], cursors[Iter(DOMAIN cursors)[k]])]
        \o [k \in DOMAIN Iter(DOMAIN user_colors) |->
                UserColor(Iter(DOMAIN user_colors)[k],
                          user_colors[Iter(DOMAIN user_colors)[k]])],
     revision |-> Len(operations)]

\* send_initial: the identity and the email, then what one read of the
\* state finds: the history if there is any, the language if set, the
\* users, the cursors and the colours; and the revision it returns.
send_initial(i, e) ==
    [msgs |->
        <<Identity(i), AuthenticatedEmail(e)>>
        \o (IF operations # <<>> THEN <<History(0, operations)>> ELSE <<>>)
        \o (IF language # None THEN <<Language(language[1])>> ELSE <<>>)
        \o [k \in DOMAIN Iter(DOMAIN users) |->
                UserInfoMsg(Iter(DOMAIN users)[k], Some(users[Iter(DOMAIN users)[k]]))]
        \o [k \in DOMAIN Iter(DOMAIN cursors) |->
                UserCursor(Iter(DOMAIN cursors)[k], cursors[Iter(DOMAIN cursors)[k]])]
        \o [k \in DOMAIN Iter(DOMAIN user_colors) |->
                UserColor(Iter(DOMAIN user_colors)[k],
                          user_colors[Iter(DOMAIN user_colors)[k]])],
     revision |-> Len(operations)]

\* send_initial, sent on the socket in one go.
SendInitial(c) ==
    /\ pc[c] = "initial"
    /\ LET r == send_initial(id[c], cf_email[c])
       IN  /\ sent' = [sent EXCEPT ![c] = @ \o r.msgs]
           /\ revision' = [revision EXCEPT ![c] = r.revision]
    /\ pc' = [pc EXCEPT ![c] = "arm"]
    /\ UNCHANGED <<state, count, killed, database, notified, update_rx, id,
                   cf_email, result, background, frames, registry, edit_lock, outgoing>>

\* A loop that creates no Notified future before its checks.
ArmNothing(c) ==
    /\ pc[c] = "arm"
    /\ pc' = [pc EXCEPT ![c] = "check_killed"]
    /\ UNCHANGED <<state, count, killed, database, notified, update_rx, id,
                   cf_email, revision, result, sent, background, frames, registry, edit_lock, outgoing>>

\* let notified = self.notify.notified()
Arm(c) ==
    /\ pc[c] = "arm"
    /\ notified' = [notified EXCEPT ![c] = "armed"]
    /\ pc' = [pc EXCEPT ![c] = "check_killed"]
    /\ UNCHANGED <<state, count, killed, database, update_rx, id, cf_email,
                   revision, result, sent, background, frames, registry, edit_lock, outgoing>>

\* if self.killed() { break }
CheckKilled(c) ==
    /\ pc[c] = "check_killed"
    /\ IF killed
       THEN Return(c, "Ok")
       ELSE /\ pc' = [pc EXCEPT ![c] = "check_revision"]
            /\ UNCHANGED <<notified, update_rx, result, revision, sent>>
    /\ UNCHANGED <<state, count, killed, database, id, cf_email, background, frames, registry, edit_lock, outgoing>>

\* if self.revision() > revision
CheckRevision(c) ==
    /\ pc[c] = "check_revision"
    /\ pc' = [pc EXCEPT ![c] = IF Len(operations) > revision[c]
                               THEN "send_history" ELSE "select"]
    /\ UNCHANGED <<state, count, killed, database, notified, update_rx, id,
                   cf_email, revision, result, sent, background, frames, registry, edit_lock, outgoing>>

\* A send_history that starts one operation early.
send_history_early(start) ==
    LET from == IF start > 0 THEN start - 1 ELSE 0
        ops == IF from < Len(operations)
               THEN SubSeq(operations, from + 1, Len(operations)) ELSE <<>>
    IN  [msgs |-> IF Len(ops) > 0
                  THEN <<[type |-> "History", start |-> start, operations |-> ops]>>
                  ELSE <<>>,
         revision |-> start + Len(ops)]

\* send_history(start): operations[start..], sent if there are any.
send_history(start) ==
    LET ops == IF start < Len(operations)
               THEN SubSeq(operations, start + 1, Len(operations)) ELSE <<>>
    IN  [msgs |-> IF Len(ops) > 0 THEN <<History(start, ops)>> ELSE <<>>,
         revision |-> start + Len(ops)]

SendHistory(c) ==
    /\ pc[c] = "send_history"
    /\ LET h == send_history(revision[c])
       IN  /\ sent' = [sent EXCEPT ![c] = @ \o h.msgs]
           /\ revision' = [revision EXCEPT ![c] = h.revision]
    /\ pc' = [pc EXCEPT ![c] = "select"]
    /\ UNCHANGED <<state, count, killed, database, notified, update_rx, id,
                   cf_email, result, background, frames, registry, edit_lock, outgoing>>

\* The loop body ends: its Notified future is dropped, and the loop goes on.
EndIteration(c, n) ==
    /\ notified' = [n EXCEPT ![c] = "none"]
    /\ pc' = [pc EXCEPT ![c] = "arm"]

\* A socket.send(..).await? that fails.
TransportError(c) ==
    /\ \/ pc[c] \in {"initial", "send_history"}
       \/ pc[c] = "select" /\ update_rx[c] # <<>>
    /\ Return(c, "TransportError")
    /\ UNCHANGED <<state, count, killed, database, id, cf_email, background, frames, registry, edit_lock, outgoing>>

\* select!: the armed notification has fired.
Wake(c) ==
    /\ pc[c] = "select"
    /\ notified[c] = "notified"
    /\ EndIteration(c, notified)
    /\ UNCHANGED <<state, count, killed, database, update_rx, id,
                   cf_email, revision, result, sent, background, frames, registry, edit_lock, outgoing>>

\* A receiver that yields its oldest event however far it is behind.
RecvUpdateUnbounded(c) ==
    /\ pc[c] = "select"
    /\ update_rx[c] # <<>>
    /\ update_rx' = [update_rx EXCEPT ![c] = Tail(@)]
    /\ sent' = [sent EXCEPT ![c] = Append(@, Head(update_rx[c]))]
    /\ EndIteration(c, notified)
    /\ UNCHANGED <<state, count, killed, database, id, cf_email,
                   revision, result, background, frames, registry, edit_lock, outgoing>>

\* select!: update_rx.recv() yields an event, forwarded to the socket.
RecvUpdate(c) ==
    /\ pc[c] = "select"
    /\ update_rx[c] # <<>>
    /\ Len(update_rx[c]) <= BROADCAST_CAPACITY
    /\ update_rx' = [update_rx EXCEPT ![c] = Tail(@)]
    /\ sent' = [sent EXCEPT ![c] = Append(@, Head(update_rx[c]))]
    /\ EndIteration(c, notified)
    /\ UNCHANGED <<state, count, killed, database, id, cf_email,
                   revision, result, background, frames, registry, edit_lock, outgoing>>

\* select!: update_rx.recv() is Err(Lagged): the channel keeps the last
\* BROADCAST_CAPACITY events, and the receiver is further behind.
Lagged(c) ==
    /\ pc[c] = "select"
    /\ Len(update_rx[c]) > BROADCAST_CAPACITY
    /\ Return(c, "Lagged")
    /\ UNCHANGED <<state, count, killed, database, id, cf_email, background,
                   frames, registry, edit_lock, outgoing>>

\* select!: socket.next() is None.
SocketClosed(c) ==
    /\ pc[c] = "select"
    /\ Return(c, "Ok")
    /\ UNCHANGED <<state, count, killed, database, id, cf_email, background, frames, registry, edit_lock, outgoing>>

\* handle_message: a frame that is not text is ignored.
HandleNonText(c) ==
    /\ pc[c] = "select"
    /\ TakeFrame
    /\ EndIteration(c, notified)
    /\ UNCHANGED <<state, count, killed, database, update_rx, id,
                   cf_email, revision, result, sent, background>>

\* handle_message: a text frame that is no ClientMsg.
HandleMalformed(c) ==
    /\ pc[c] = "select"
    /\ TakeFrame
    /\ Return(c, "DecodeError")
    /\ UNCHANGED <<state, count, killed, database, id, cf_email, background>>

\* handle_message, ClientMsg::Edit: apply_edit, and on Ok on to notify_waiters.
HandleEdit(c, rev, operation) ==
    /\ pc[c] = "select"
    /\ TakeFrame
    /\ LET r == apply_edit(id[c], rev, operation, cf_email[c])
       IN  /\ operations' = r.new.operations
           /\ text' = r.new.text
           /\ cursors' = r.new.cursors
           /\ IF r.err = "none"
              THEN /\ pc' = [pc EXCEPT ![c] = "notify"]
                   /\ UNCHANGED <<notified, update_rx, result, revision, sent>>
              ELSE Return(c, r.err)
    /\ UNCHANGED <<language, users, user_colors, count, killed, database, id,
                   cf_email, background>>

\* No apply_edit holds the upgradable read lock: a writer, or another
\* upgradable reader, can take the lock.
LockFree == DOMAIN edit_lock = {}

\* An apply_edit that takes a plain read lock, which excludes no other
\* reader.
EditReadShared(c, rev, operation) ==
    /\ pc[c] = "select"
    /\ frames > 0
    /\ frames' = frames - 1
    /\ LET r == apply_edit(id[c], rev, operation, cf_email[c])
       IN  IF r.err = "none"
           THEN /\ edit_lock' = MapInsert(edit_lock, c,
                                    [operation |-> r.new.operations[Len(r.new.operations)],
                                     new_text |-> r.new.text])
                /\ pc' = [pc EXCEPT ![c] = "commit"]
                /\ UNCHANGED <<notified, update_rx, result, revision, sent>>
           ELSE Return(c, r.err) /\ UNCHANGED edit_lock
    /\ UNCHANGED <<state, count, killed, database, id, cf_email, background,
                   registry, outgoing>>

\* apply_edit up to new_text: under the upgradable read lock it reads the
\* length of the history, rebases the operation over the tail and applies
\* it; on Err the lock is dropped.
EditRead(c, rev, operation) ==
    /\ pc[c] = "select"
    /\ frames > 0
    /\ frames' = frames - 1
    /\ LockFree
    /\ LET r == apply_edit(id[c], rev, operation, cf_email[c])
       IN  IF r.err = "none"
           THEN /\ edit_lock' = MapInsert(edit_lock, c,
                                    [operation |-> r.new.operations[Len(r.new.operations)],
                                     new_text |-> r.new.text])
                /\ pc' = [pc EXCEPT ![c] = "commit"]
                /\ UNCHANGED <<notified, update_rx, result, revision, sent>>
           ELSE Return(c, r.err) /\ UNCHANGED edit_lock
    /\ UNCHANGED <<state, count, killed, database, id, cf_email, background,
                   registry, outgoing>>

\* apply_edit from the upgrade on: under the write lock the cursors are
\* transformed, the operation is pushed and the text replaced; then the
\* lock is dropped.
EditWrite(c) ==
    /\ pc[c] = "commit"
    /\ c \in DOMAIN edit_lock
    /\ cursors' = [k \in DOMAIN cursors |->
                     TransformCursorData(edit_lock[c].operation.operation, cursors[k])]
    /\ operations' = Append(operations, edit_lock[c].operation)
    /\ text' = edit_lock[c].new_text
    /\ edit_lock' = MapRemove(edit_lock, c)
    /\ pc' = [pc EXCEPT ![c] = "notify"]
    /\ UNCHANGED <<language, users, user_colors, count, killed, database,
                   notified, update_rx, id, cf_email, revision, result, sent,
                   background, frames, registry, outgoing>>

\* handle_message, ClientMsg::Edit: self.notify.notify_waiters()
NotifyEdit(c) ==
    /\ pc[c] = "notify"
    /\ EndIteration(c, notify_waiters)
    /\ UNCHANGED <<state, count, killed, database, update_rx, id, cf_email,
                   revision, result, sent, background, frames, registry, edit_lock, outgoing>>

\* handle_message, ClientMsg::SetLanguage
HandleSetLanguage(c, lang) ==
    /\ pc[c] = "select"
    /\ TakeFrame
    /\ language' = Some(lang)
    /\ update_rx' = Publish(Language(lang))
    /\ EndIteration(c, notified)
    /\ UNCHANGED <<operations, text, users, cursors, user_colors, count, killed,
                   database, id, cf_email, revision, result, sent,
                   background>>

\* handle_message, ClientMsg::SetLanguage, its first statement: the
\* language is written under the write lock, which is then released.
SetLanguageWrite(c, lang) ==
    /\ pc[c] = "select"
    /\ frames > 0
    /\ frames' = frames - 1
    /\ LockFree
    /\ language' = Some(lang)
    /\ outgoing' = [outgoing EXCEPT ![c] = Some(Language(lang))]
    /\ pc' = [pc EXCEPT ![c] = "send"]
    /\ UNCHANGED <<operations, text, users, cursors, user_colors, count, killed,
                   database, notified, update_rx, id, cf_email, revision,
                   result, sent, background, registry, edit_lock>>

\* handle_message, ClientMsg::SetLanguage, its second statement:
\* self.update.send(ServerMsg::Language(language))
SetLanguageSend(c) ==
    /\ pc[c] = "send"
    /\ outgoing[c] # None
    /\ update_rx' = Publish(outgoing[c][1])
    /\ outgoing' = [outgoing EXCEPT ![c] = None]
    /\ EndIteration(c, notified)
    /\ UNCHANGED <<state, count, killed, database, id, cf_email, revision,
                   result, sent, background, frames, registry, edit_lock>>

\* handle_message, ClientMsg::ClientInfo
HandleClientInfo(c, info) ==
    /\ pc[c] = "select"
    /\ TakeFrame
    /\ users' = MapInsert(users, id[c], info)
    /\ update_rx' = Publish(UserInfoMsg(id[c], Some(info)))
    /\ EndIteration(c, notified)
    /\ UNCHANGED <<operations, text, language, cursors, user_colors, count,
                   killed, database, id, cf_email, revision, result,
                   sent, background>>

\* handle_message, ClientMsg::CursorData: stored as received.
HandleCursorData(c, data) ==
    /\ pc[c] = "select"
    /\ TakeFrame
    /\ cursors' = MapInsert(cursors, id[c], data)
    /\ update_rx' = Publish(UserCursor(id[c], data))
    /\ EndIteration(c, notified)
    /\ UNCHANGED <<operations, text, language, users, user_colors, count,
                   killed, database, id, cf_email, revision, result,
                   sent, background>>

\* A SetColor that does not look at the email: the colour of an anonymous
\* connection is kept under the name "anonymous".
HandleSetColorAnyone(c, hue) ==
    LET email == IF cf_email[c] # None THEN cf_email[c][1] ELSE "anonymous"
    IN  /\ pc[c] = "select"
        /\ TakeFrame
        /\ user_colors' = MapInsert(user_colors, email, hue)
        /\ update_rx' = Publish(UserColor(email, hue))
        /\ color_tasks' = IF database THEN color_tasks \cup {<<email, hue>>}
                          ELSE color_tasks
        /\ EndIteration(c, notified)
        /\ UNCHANGED <<operations, text, language, users, cursors, count,
                       killed, database, id, cf_email, revision, result, sent,
                       kill_pc, persist_pc, persist_rev, last_revision, stored,
                       db_colors>>

\* handle_message, ClientMsg::SetColor: only with an authenticated email;
\* the write to the store is a spawned task, if there is a database.
HandleSetColor(c, hue) ==
    /\ pc[c] = "select"
    /\ TakeFrame
    /\ IF cf_email[c] # None
       THEN /\ user_colors' = MapInsert(user_colors, cf_email[c][1], hue)
            /\ update_rx' = Publish(UserColor(cf_email[c][1], hue))
            /\ color_tasks' = IF database
                              THEN color_tasks \cup {<<cf_email[c][1], hue>>}
                              ELSE color_tasks
       ELSE UNCHANGED <<user_colors, update_rx, color_tasks>>
    /\ EndIteration(c, notified)
    /\ UNCHANGED <<operations, text, language, users, cursors, count, killed,
                   database, id, cf_email, revision, result, sent,
                   kill_pc, persist_pc, persist_rev, last_revision, stored,
                   db_colors>>

\* The spawned task: db.save_user_color(email, hue), which may fail.
SaveUserColor(t, ok) ==
    /\ t \in color_tasks
    /\ color_tasks' = color_tasks \ {t}
    /\ db_colors' = IF ok THEN MapInsert(db_colors, t[1], t[2]) ELSE db_colors
    /\ UNCHANGED <<state, count, killed, database, handlers, kill_pc,
                   persist_pc, persist_rev, last_revision, stored, frames, registry, edit_lock, outgoing>>

\* on_connection after handle_connection: self.state.write().users.remove(&id)
RemoveUser(c) ==
    /\ pc[c] = "remove_user"
    /\ users' = MapRemove(users, id[c])
    /\ pc' = [pc EXCEPT ![c] = "remove_cursor"]
    /\ UNCHANGED <<operations, text, language, cursors, user_colors, count,
                   killed, database, notified, update_rx, id, cf_email,
                   revision, result, sent, background, frames, registry, edit_lock, outgoing>>

\* An on_connection that leaves the cursors as they are.
RemoveCursorSkipped(c) ==
    /\ pc[c] = "remove_cursor"
    /\ pc' = [pc EXCEPT ![c] = "leave"]
    /\ UNCHANGED <<state, count, killed, database, notified, update_rx, id,
                   cf_email, revision, result, sent, background, frames, registry, edit_lock, outgoing>>

\* self.state.write().cursors.remove(&id)
RemoveCursor(c) ==
    /\ pc[c] = "remove_cursor"
    /\ cursors' = MapRemove(cursors, id[c])
    /\ pc' = [pc EXCEPT ![c] = "leave"]
    /\ UNCHANGED <<operations, text, language, users, user_colors, count,
                   killed, database, notified, update_rx, id, cf_email,
                   revision, result, sent, background, frames, registry, edit_lock, outgoing>>

\* self.update.send(ServerMsg::UserInfo { id, info: None })
Leave(c) ==
    /\ pc[c] = "leave"
    /\ update_rx' = Publish(UserInfoMsg(id[c], None))
    /\ pc' = [pc EXCEPT ![c] = "done"]
    /\ UNCHANGED <<state, count, killed, database, notified, id, cf_email,
                   revision, result, sent, background, frames, registry, edit_lock, outgoing>>

(***************************************************************************)
(* kill(), called when the Document of the session is dropped.             *)
(***************************************************************************)
\* self.killed.store(true)
KillStore ==
    /\ kill_pc = "idle"
    /\ killed' = TRUE
    /\ kill_pc' = "notify"
    /\ UNCHANGED <<state, count, database, handlers, persist_pc, persist_rev,
                   last_revision, stored, color_tasks, db_colors, frames, registry, edit_lock, outgoing>>

\* A kill() that sets the flag and wakes nobody.
KillWakesNobody ==
    /\ kill_pc = "notify"
    /\ kill_pc' = "done"
    /\ UNCHANGED <<state, count, killed, database, handlers, persist_pc,
                   persist_rev, last_revision, stored, color_tasks, db_colors,
                   frames, registry, edit_lock, outgoing>>

\* self.notify.notify_waiters()
KillNotify ==
    /\ kill_pc = "notify"
    /\ notified' = notify_waiters
    /\ kill_pc' = "done"
    /\ UNCHANGED <<state, count, killed, database, update_rx, pc, id, cf_email,
                   revision, result, sent, persist_pc, persist_rev,
                   last_revision, stored, color_tasks, db_colors, frames, registry, edit_lock, outgoing>>

(***************************************************************************)
(* The persister of the session.                                           *)
(***************************************************************************)
\* Rustpad::snapshot
snapshot == [text |-> text, language |-> language]

\* while !rustpad.killed()
PersistCheck ==
    /\ persist_pc = "check"
    /\ persist_pc' = IF killed THEN "exit" ELSE "sleep"
    /\ UNCHANGED <<state, count, killed, database, handlers, kill_pc,
                   persist_rev, last_revision, stored, color_tasks, db_colors, frames, registry, edit_lock, outgoing>>

\* After the sleep: let revision = rustpad.revision(); if revision > last_revision
PersistTick ==
    /\ persist_pc = "sleep"
    /\ persist_rev' = Len(operations)
    /\ persist_pc' = IF Len(operations) > last_revision THEN "store" ELSE "check"
    /\ UNCHANGED <<state, count, killed, database, handlers, kill_pc,
                   last_revision, stored, color_tasks, db_colors, frames, registry, edit_lock, outgoing>>

\* A persister that, once the document is stored, compacts the history to
\* one insert of the text.
PersistStoreCompacts(ok) ==
    /\ persist_pc = "store"
    /\ IF ok
       THEN /\ stored' = Some([text |-> text, language |-> language])
            /\ last_revision' = 1
            /\ operations' = <<[id |-> U64_MAX, operation |-> OpInsert(<<>>, text),
                                email |-> None]>>
       ELSE UNCHANGED <<stored, last_revision, operations>>
    /\ persist_pc' = "check"
    /\ UNCHANGED <<text, language, users, cursors, user_colors, count, killed,
                   database, handlers, kill_pc, persist_rev, color_tasks,
                   db_colors, frames, registry, edit_lock, outgoing>>

\* db.store(&id, &rustpad.snapshot()): Ok records the revision, Err does not.
PersistStore(ok) ==
    /\ persist_pc = "store"
    /\ IF ok
       THEN /\ stored' = Some(snapshot)
            /\ last_revision' = persist_rev
       ELSE UNCHANGED <<stored, last_revision>>
    /\ persist_pc' = "check"
    /\ UNCHANGED <<state, count, killed, database, handlers, kill_pc,
                   persist_rev, color_tasks, db_colors, frames, registry, edit_lock, outgoing>>

(***************************************************************************)
(* What clients send, and the documents the store may hold at the start.   *)
(***************************************************************************)
\* The history replayed from the empty string, as a client replays it.
RECURSIVE ReplayFrom(_, _)
ReplayFrom(ops, s) ==
    IF ops = <<>> THEN [ok |-> TRUE, text |-> s]
    ELSE LET a == Apply(Head(ops).operation, s)
         IN  IF a.ok THEN ReplayFrom(Tail(ops), a.text)
             ELSE [ok |-> FALSE, text |-> <<>>]

Replay(ops) == ReplayFrom(ops, <<>>)

\* The text a client at revision r has.
TextAt(r) == Replay(SubSeq(operations, 1, r)).text

InsertAt(len, p, s) == Op(<<Retain(p), Insert(s), Retain(len - p)>>)
DeleteAt(len, p) == Op(<<Retain(p), Delete(1), Retain(len - p - 1)>>)

Edit(r, o) == [revision |-> r, operation |-> o]

\* The edits of a client that is at revision r: an insert at either end of
\* its text, or the deletion of its first character.
ClientOps(len) ==
    {InsertAt(len, p, Run("x", 1)) : p \in {0, len}}
        \cup {DeleteAt(len, 0) : z \in {1} \cap 1..len}

GoodEdits ==
    UNION {{Edit(r, o) : o \in ClientOps(TLen(TextAt(r)))} : r \in 0..Len(operations)}

\* Edits the server must refuse: a revision ahead of the history, an
\* operation for a text of another length, a text beyond the cap.
BadEdits ==
    {Edit(Len(operations) + 1, InsertAt(0, 0, Run("x", 1))),
     Edit(Len(operations), InsertAt(TLen(text) + 1, 0, Run("x", 1))),
     Edit(Len(operations), InsertAt(TLen(text), 0, Run("x", MAX_TARGET_LEN + 1)))}

\* The first connection is anonymous, the others are authenticated.
EmailOf(c) == IF c = 1 THEN None ELSE Some("u@x")
Languages == {"rust"}
UserInfos == {[name |-> "ann", hue |-> 10]}
CursorInputs == {[cursors |-> <<1>>, selections |-> <<<<0, 1>>>>]}
Hues == {210}

Doc(t, l) == [text |-> t, language |-> l]
SeedDocs == {None, Some(Doc(Run("a", 1) \o Run("b", 1), Some("go")))}

(***************************************************************************)
(* Spec: the session and its connection handlers, with every kind of       *)
(* frame.                                                                  *)
(***************************************************************************)
Init == \E doc \in SeedDocs : InitSession(doc, MaxFrames)

Next ==
    \E c \in Conn :
        \/ Connect(c, EmailOf(c))
        \/ SendInitial(c)
        \/ Arm(c)
        \/ CheckKilled(c)
        \/ CheckRevision(c)
        \/ SendHistory(c)
        \/ Wake(c)
        \/ RecvUpdate(c)
        \/ NotifyEdit(c)
        \/ RemoveUser(c)
        \/ RemoveCursor(c)
        \/ Leave(c)
        \/ TransportError(c)
        \/ SocketClosed(c)
        \/ HandleNonText(c)
        \/ HandleMalformed(c)
        \/ \E m \in GoodEdits \cup BadEdits : HandleEdit(c, m.revision, m.operation)
        \/ \E l \in Languages : HandleSetLanguage(c, l)
        \/ \E i \in UserInfos : HandleClientInfo(c, i)
        \/ \E d \in CursorInputs : HandleCursorData(c, d)
        \/ \E h \in Hues : HandleSetColor(c, h)

Spec == Init /\ [][Next]_vars

(***************************************************************************)
(* The claims.                                                             *)
(***************************************************************************)
EditFrames == GoodEdits \cup BadEdits

\* C1: in every reachable state the text is the history applied, operation
\* by operation, to the empty string.
C1_TextIsFoldOfHistory ==
    /\ Replay(operations).ok
    /\ Replay(operations).text = text

\* C1: a loaded document that two connections have each edited.
C1_Witness ==
    /\ Len(operations) = 3
    /\ operations[1].id = U64_MAX
    /\ operations[2].id # operations[3].id
    /\ text # <<>>

\* The operations of a sequence of History messages, one after the other.
RECURSIVE Concat(_)
Concat(msgs) ==
    IF msgs = <<>> THEN <<>> ELSE Head(msgs).operations \o Concat(Tail(msgs))

IsPrefix(a, b) == Len(a) <= Len(b) /\ a = SubSeq(b, 1, Len(a))

\* The History messages sent to a connection, in the order they were sent.
IsHistory(msg) == msg.type = "History"
Histories(c) == SelectSeq(sent[c], IsHistory)

\* C3: for every connection, each History message starts where the ones
\* before it ended, and together they are a prefix of the history.
C3_HistoryPrefix ==
    \A c \in Conn :
        /\ \A k \in DOMAIN Histories(c) :
              Histories(c)[k].start = Len(Concat(SubSeq(Histories(c), 1, k - 1)))
        /\ IsPrefix(Concat(Histories(c)), operations)

\* C3: two connections have received the history, one of them in an
\* initial dump and a later message.
C3_Witness ==
    /\ \E c \in Conn : Len(Histories(c)) >= 2 /\ Histories(c)[2].start > 0
    /\ \A c \in Conn : Histories(c) # <<>>

\* C7: an Edit whose revision is beyond the history fails with
\* InvalidRevision, changes neither history, text nor cursors, wakes
\* nobody and ends its connection; an Edit at the history length does not
\* fail with InvalidRevision.
C7_InvalidRevision ==
    [][\A c \in Conn : (pc[c] = "select" /\ frames' # frames) =>
        \A m \in EditFrames :
          HandleEdit(c, m.revision, m.operation) =>
              IF m.revision > Len(operations)
              THEN /\ result'[c] = "InvalidRevision"
                   /\ pc'[c] = "remove_user"
                   /\ state' = state
                   /\ \A d \in Conn \ {c} : notified'[d] = notified[d]
              ELSE result'[c] # "InvalidRevision"]_vars

\* C7: a connection has ended with InvalidRevision.
C7_Witness == \E c \in Conn : result[c] = "InvalidRevision"

(***************************************************************************)
(* SpecOT: two clients that only edit, each with its own character, at     *)
(* every position of the text of every revision.                           *)
(***************************************************************************)
OTFrames == 2

CharOf(c) == IF c = 1 THEN "X" ELSE "Y"

OTOps(c, len) ==
    {InsertAt(len, p, Run(CharOf(c), 1)) : p \in 0..len}
        \cup {DeleteAt(len, p) : p \in 0..(len - 1)}

OTEdits(c) ==
    UNION {{Edit(r, o) : o \in OTOps(c, TLen(TextAt(r)))} : r \in 0..Len(operations)}

\* The steps of the multiplex loop that no frame and no failure takes part in.
Loop(c) ==
    \/ Connect(c, EmailOf(c))
    \/ SendInitial(c)
    \/ Arm(c)
    \/ CheckKilled(c)
    \/ CheckRevision(c)
    \/ SendHistory(c)
    \/ Wake(c)
    \/ NotifyEdit(c)

InitOT == \E doc \in SeedDocs : InitSession(doc, OTFrames)

NextOT ==
    \E c \in Conn :
        \/ Loop(c)
        \/ \E m \in OTEdits(c) : HandleEdit(c, m.revision, m.operation)

SpecOT == InitOT /\ [][NextOT]_vars

\* A client with an outstanding operation receives the operations of others:
\* it transforms the one against the other, applies what it received to its
\* text, and keeps its own operation rebased.
RECURSIVE ClientReceive(_, _, _)
ClientReceive(outstanding, txt, received) ==
    IF received = <<>> THEN [ok |-> TRUE, text |-> txt, outstanding |-> outstanding]
    ELSE LET t == Transform(outstanding, Head(received).operation)
             a == IF t.ok THEN Apply(t.b, txt) ELSE [ok |-> FALSE, text |-> <<>>]
         IN  IF a.ok THEN ClientReceive(t.a, a.text, Tail(received))
             ELSE [ok |-> FALSE, text |-> <<>>, outstanding |-> <<>>]

\* The text of the client that sent the edit, once it has applied its edit
\* to its own text and received the history since the revision of the edit.
ClientText(m) ==
    ClientReceive(m.operation, Apply(m.operation, TextAt(m.revision)).text,
                  SubSeq(operations, m.revision + 1, Len(operations)))

\* C2: whenever an edit based on any revision is committed, in whichever
\* order it and the edits concurrent with it have arrived, the text of the
\* client that sent it, of a client that replays the history, and of the
\* server are the same.
C2_Convergence ==
    [][\A c \in Conn : (pc[c] = "select" /\ pc'[c] = "notify") =>
        \A m \in OTEdits(c) :
          (HandleEdit(c, m.revision, m.operation) /\ pc'[c] = "notify") =>
              /\ ClientText(m).ok
              /\ ClientText(m).text = text'
              /\ ClientText(m).outstanding = operations'[Len(operations')].operation
              /\ Replay(operations').ok
              /\ Replay(operations').text = text']_vars

\* C2: two clients have deleted the same character of the same revision,
\* and the second deletion was committed as an operation that deletes
\* nothing.
C2_Witness ==
    /\ Len(operations) = 3
    /\ operations[2].id # operations[3].id
    /\ operations[3].operation = Op(<<Retain(1)>>)

(***************************************************************************)
(* FairSpec: the multiplex loops of the handlers while edits are           *)
(* committed, sockets close or fail and the session is killed.  A handler  *)
(* that can take a step of its own takes it; clients, sockets and kill()   *)
(* owe nothing.                                                            *)
(***************************************************************************)
LiveFrames == 2

\* The edits of a client that only appends.
LiveEdits ==
    {Edit(r, InsertAt(TLen(TextAt(r)), TLen(TextAt(r)), Run("x", 1))) :
        r \in 0..Len(operations)}

\* on_connection after handle_connection has returned.
Teardown(c) ==
    \/ RemoveUser(c)
    \/ RemoveCursor(c)
    \/ Leave(c)

InitLive == \E doc \in SeedDocs : InitSession(doc, LiveFrames)

NextLive ==
    \/ \E c \in Conn :
        \/ Loop(c)
        \/ RecvUpdate(c)
        \/ Teardown(c)
        \/ SocketClosed(c)
        \/ TransportError(c)
        \/ \E m \in LiveEdits : HandleEdit(c, m.revision, m.operation)
    \/ KillStore
    \/ KillNotify

\* The task of a handler runs on when it can: every step that waits for
\* nothing outside the server is taken if it stays possible.
HandlerFairness ==
    \A c \in Conn :
        /\ WF_vars(SendInitial(c))
        /\ WF_vars(Arm(c))
        /\ WF_vars(CheckKilled(c))
        /\ WF_vars(CheckRevision(c))
        /\ WF_vars(SendHistory(c))
        /\ WF_vars(Wake(c))
        /\ WF_vars(RecvUpdate(c))
        /\ WF_vars(NotifyEdit(c))

FairSpec == InitLive /\ [][NextLive]_vars /\ HandlerFairness

\* The handler is in the loop of handle_connection.
InLoop(c) ==
    pc[c] \in {"arm", "check_killed", "check_revision", "send_history",
               "select", "notify"}

\* C4: whenever the history has n operations and a handler in its loop has
\* sent fewer, the handler later has sent n, unless it leaves the loop
\* (killed session, closed or failing socket).
C4_NoLostWakeup ==
    \A c \in Conn : \A n \in 1..(LiveFrames + 1) :
        (InLoop(c) /\ Len(operations) >= n /\ revision[c] < n)
            ~> (~InLoop(c) \/ revision[c] >= n)

\* C4: an edit was committed while a handler waited in select!, and the
\* notification has reached the handler, which has not sent the edit yet.
C4_Witness ==
    \E c \in Conn :
        /\ pc[c] = "select"
        /\ notified[c] = "notified"
        /\ revision[c] < Len(operations)
        /\ ~killed

(***************************************************************************)
(* SpecAll: one connection at a time with every kind of frame, the         *)
(* persister, the tasks that save colours, and kill().                     *)
(***************************************************************************)
AllFrames == 2

InitAll == \E doc \in SeedDocs : InitSession(doc, AllFrames)

\* What the first connection, anonymous or authenticated, can do.
Session(c) ==
    \/ \E e \in {None, Some("u@x")} : Connect(c, e)
    \/ Loop(c)
    \/ RecvUpdate(c)
    \/ Teardown(c)
    \/ SocketClosed(c)
    \/ TransportError(c)
    \/ HandleNonText(c)
    \/ HandleMalformed(c)
    \/ \E m \in EditFrames : HandleEdit(c, m.revision, m.operation)
    \/ \E l \in Languages : HandleSetLanguage(c, l)
    \/ \E i \in UserInfos : HandleClientInfo(c, i)
    \/ \E d \in CursorInputs : HandleCursorData(c, d)
    \/ \E h \in Hues : HandleSetColor(c, h)

NextAll ==
    \/ Session(1)
    \/ KillStore
    \/ KillNotify
    \/ PersistCheck
    \/ PersistTick
    \/ \E ok \in BOOLEAN : PersistStore(ok)
    \/ \E task \in color_tasks : \E ok \in BOOLEAN : SaveUserColor(task, ok)

SpecAll == InitAll /\ [][NextAll]_vars

\* An Edit frame is handled and its operation is committed.
EditCommits ==
    \E c \in Conn :
        /\ pc[c] = "select"
        /\ pc'[c] = "notify"
        /\ \E m \in EditFrames : HandleEdit(c, m.revision, m.operation)

\* C5: the revision grows by exactly one in a step that commits an Edit,
\* and no other step changes it.
C5_RevisionMonotonic ==
    [][IF EditCommits THEN Len(operations') = Len(operations) + 1
       ELSE Len(operations') = Len(operations)]_vars

\* C5: an edit is committed and stored by the persister, the session is
\* killed, and the connection has gone after a rejected Edit.
C5_Witness ==
    /\ \E k \in DOMAIN operations : operations[k].id # U64_MAX
    /\ last_revision = Len(operations)
    /\ killed
    /\ \E c \in Conn :
          /\ pc[c] = "done"
          /\ result[c] \in {"InvalidRevision", "OTFailure", "DocumentTooLarge"}

(***************************************************************************)
(* SpecEdit: edits and cursors of clients that may be behind the history,  *)
(* on documents up to the cap.                                             *)
(***************************************************************************)
EditBudget == 2

\* How many operations a client may be behind the history when it sends.
MaxBehind == 1

\* The revisions a client may be at.
ClientRevisions ==
    {r \in 0..Len(operations) : Len(operations) - r <= MaxBehind}

\* Documents the persister can have stored: snapshots of a text.
EditSeeds ==
    {Some(Doc(Run("a", 1) \o Run("b", 1), None)),
     Some(Doc(Run("a", MAX_TARGET_LEN - 1), None))}

\* Edits of a client at revision r: an insert at the start of its text or
\* the deletion of its first character; and edits the server must refuse:
\* an operation for a text of another length, an insert beyond the cap.
EditInputs ==
    UNION {{Edit(r, InsertAt(TLen(TextAt(r)), 0, Run("x", 1))),
            Edit(r, DeleteAt(TLen(TextAt(r)), 0)),
            Edit(r, InsertAt(TLen(TextAt(r)) + 1, 0, Run("x", 1)))} :
           r \in {q \in ClientRevisions : TLen(TextAt(q)) > 0}}
        \cup {Edit(Len(operations),
                   InsertAt(TLen(text), 0, Run("x", MAX_TARGET_LEN + 1)))}

\* The cursor of a client at revision r, at the end of its text, with the
\* selection of all of it.
StaleCursors ==
    {[cursors |-> <<TLen(TextAt(r))>>, selections |-> <<<<0, TLen(TextAt(r))>>>>] :
        r \in ClientRevisions}

InitEdit == \E doc \in EditSeeds : InitSession(doc, EditBudget)

NextEdit ==
    \E c \in Conn :
        \/ Loop(c)
        \/ RecvUpdate(c)
        \/ Teardown(c)
        \/ \E m \in EditInputs : HandleEdit(c, m.revision, m.operation)
        \/ \E d \in StaleCursors : HandleCursorData(c, d)

SpecEdit == InitEdit /\ [][NextEdit]_vars

\* C8: every operation of the history has a target_len of at most 262,144,
\* also when it was sent for an earlier revision and grew in the rebase, and
\* so the text is never longer than that.
C8_SizeCap ==
    /\ \A k \in DOMAIN operations :
          target_len(operations[k].operation) <= MAX_TARGET_LEN
    /\ TLen(text) <= MAX_TARGET_LEN

\* C8: the text has reached the cap with a committed edit, and an Edit has
\* been refused with DocumentTooLarge.
C8_Witness ==
    /\ TLen(text) = MAX_TARGET_LEN
    /\ Len(operations) = 2
    /\ \E c \in Conn : result[c] = "DocumentTooLarge"

\* C9: an Edit that fails with DocumentTooLarge or OTFailure leaves the
\* history, the text, the cursors, the users, the language and the colours
\* as they were.
C9_FailedEditChangesNothing ==
    [][\A c \in Conn : (pc[c] = "select" /\ frames' # frames) =>
        \A m \in EditInputs :
          (/\ HandleEdit(c, m.revision, m.operation)
           /\ result'[c] \in {"DocumentTooLarge", "OTFailure"})
              => state' = state]_vars

\* C9: cursors are stored, and a connection has ended with OTFailure or
\* DocumentTooLarge.
C9_Witness ==
    /\ cursors # EmptyMap
    /\ \E c \in Conn : result[c] \in {"DocumentTooLarge", "OTFailure"}

(***************************************************************************)
(* SpecCursor: clients that delete the first character of the text and     *)
(* report a cursor at the end of the text they have, which may be one      *)
(* operation behind.                                                       *)
(***************************************************************************)
CursorBudget == 3

CursorSeeds == {Some(Doc(Run("a", 1) \o Run("b", 1), None))}

\* The deletion of the first character of the text, if it has one.
CursorEdits ==
    {Edit(Len(operations), DeleteAt(TLen(text), 0)) : z \in {1} \cap 1..TLen(text)}

InitCursor == \E doc \in CursorSeeds : InitSession(doc, CursorBudget)

NextCursor ==
    \E c \in Conn :
        \/ Loop(c)
        \/ RecvUpdate(c)
        \/ \E m \in CursorEdits : HandleEdit(c, m.revision, m.operation)
        \/ \E d \in StaleCursors : HandleCursorData(c, d)

SpecCursor == InitCursor /\ [][NextCursor]_vars

\* Every stored cursor and selection endpoint is within the text.
CursorsInRange ==
    \A k \in DOMAIN cursors :
        /\ \A i \in DOMAIN cursors[k].cursors :
              cursors[k].cursors[i] \in 0..TLen(text)
        /\ \A i \in DOMAIN cursors[k].selections :
              /\ cursors[k].selections[i][1] \in 0..TLen(text)
              /\ cursors[k].selections[i][2] \in 0..TLen(text)

\* C6: after every committed edit, every stored cursor offset and selection
\* endpoint is between 0 and the length of the text.
C6_CursorsInRange ==
    [][Len(operations') > Len(operations) => CursorsInRange']_vars

\* C10: once kill() has set the killed flag, no step changes the history or
\* the text.
C10_KilledRejectsEdits ==
    [][killed => (operations' = operations /\ text' = text)]_vars

(***************************************************************************)
(* The registry of sessions: socket_handler, delete_document_handler and   *)
(* the cleaner.  The first session it creates is the one whose state and   *)
(* handlers are modelled in full.                                          *)
(***************************************************************************)
\* The sessions socket_handler creates, and the hours the clock counts.
MaxSessions == 2
MaxTime == 2

\* HOUR * 24 * expiry_days, in steps of the clock.
Expiry == 1

\* Everything of the first session and its tasks.
session == <<state, count, killed, database, handlers, background, frames,
             edit_lock, outgoing>>

\* A socket_handler that looks the id up, finds nothing, and inserts its
\* new session whatever the map holds by then.
AcquireUnlocked(k) ==
    /\ created < MaxSessions
    /\ created' = created + 1
    /\ persisters' = Append(persisters, 1)
    /\ documents' = MapInsert(documents, k, Document(created + 1))
    /\ returned' = returned \cup {created + 1}
    /\ acquired' = IF created = 0 THEN 1 ELSE acquired
    /\ UNCHANGED <<now, cleaner_pc, keys, dropped, session>>

\* socket_handler up to on_upgrade, under the entry lock of the map: the
\* session of the entry, or a new one with its persister, and the entry is
\* marked as accessed now.
Acquire(k) ==
    /\ IF k \in DOMAIN documents
       THEN /\ documents[k].rustpad = 1 => acquired < NConn
            /\ documents' = [documents EXCEPT ![k].last_accessed = now]
            /\ returned' = returned \cup {documents[k].rustpad}
            /\ acquired' = IF documents[k].rustpad = 1 THEN acquired + 1
                           ELSE acquired
            /\ UNCHANGED <<created, persisters>>
       ELSE /\ created < MaxSessions
            /\ created' = created + 1
            /\ persisters' = Append(persisters, 1)
            /\ documents' = MapInsert(documents, k, Document(created + 1))
            /\ returned' = returned \cup {created + 1}
            /\ acquired' = IF created = 0 THEN 1 ELSE acquired
    /\ UNCHANGED <<now, cleaner_pc, keys, dropped, session>>

\* state.documents.remove(&key): the entry is taken out and dropped.
Remove(ks) ==
    /\ documents' = [k \in DOMAIN documents \ ks |-> documents[k]]
    /\ dropped' = dropped \cup {documents[k].rustpad : k \in DOMAIN documents \cap ks}
    /\ returned' = IF DOMAIN documents \cap ks = {} THEN returned ELSE {}

\* delete_document_handler, as far as the registry goes.
DeleteDocument(k) ==
    /\ k \in DOMAIN documents
    /\ Remove({k})
    /\ UNCHANGED <<now, created, persisters, acquired, cleaner_pc, keys, session>>

\* Time passes.
Tick ==
    /\ now < MaxTime
    /\ now' = now + 1
    /\ UNCHANGED <<documents, created, persisters, returned, acquired,
                   cleaner_pc, keys, dropped, session>>

\* The cleaner after its sleep: the keys of the entries not accessed for
\* longer than the expiry.
CleanerCollect ==
    /\ cleaner_pc = "sleep"
    /\ keys' = {k \in DOMAIN documents : now - documents[k].last_accessed > Expiry}
    /\ cleaner_pc' = "remove"
    /\ UNCHANGED <<documents, now, created, persisters, returned, acquired,
                   dropped, session>>

\* The cleaner removes the keys it has collected.
CleanerRemove ==
    /\ cleaner_pc = "remove"
    /\ Remove(keys)
    /\ keys' = {}
    /\ cleaner_pc' = "sleep"
    /\ UNCHANGED <<now, created, persisters, acquired, session>>

\* impl Drop for Document, of the first session: kill() begins.
DropDocument ==
    /\ 1 \in dropped
    /\ KillStore

\* The connection of a socket_handler call that has got the first session.
Upgrade(c) ==
    /\ c <= acquired
    /\ Connect(c, EmailOf(c))

\* The steps of handle_connection that wait for nothing outside the server.
Steps(c) ==
    \/ SendInitial(c)
    \/ Arm(c)
    \/ CheckKilled(c)
    \/ CheckRevision(c)
    \/ SendHistory(c)
    \/ Wake(c)
    \/ NotifyEdit(c)

(***************************************************************************)
(* FairKill: the registry, the connections of the first session and the    *)
(* kill() of its Drop.  The thread that removes an entry goes on to drop   *)
(* it and to run kill(); the handlers run on as in FairSpec.               *)
(***************************************************************************)
KillFrames == 1

InitKill == \E doc \in SeedDocs : InitRustpad(doc, KillFrames) /\ InitRegistry

NextKill ==
    \/ \E k \in DocIds : Acquire(k) \/ DeleteDocument(k)
    \/ Tick
    \/ CleanerCollect
    \/ CleanerRemove
    \/ DropDocument
    \/ KillNotify
    \/ \E c \in Conn :
        \/ Upgrade(c)
        \/ Steps(c)
        \/ RecvUpdate(c)
        \/ Teardown(c)
        \/ \E m \in LiveEdits : HandleEdit(c, m.revision, m.operation)

FairKill ==
    /\ InitKill
    /\ [][NextKill]_vars
    /\ HandlerFairness
    /\ WF_vars(DropDocument)
    /\ WF_vars(KillNotify)

\* C11: once the entry of the session is removed, the session becomes
\* killed, and every handler that is in its loop then, or enters it later,
\* leaves it.
C11_RemovedSessionDrains ==
    /\ (1 \in dropped) ~> killed
    /\ \A c \in Conn : (1 \in dropped /\ InLoop(c)) ~> ~InLoop(c)

\* C11: the cleaner has removed the entry while a handler waited in select!
\* with the flag not yet set.
C11_Witness ==
    /\ 1 \in dropped
    /\ ~killed
    /\ now > Expiry
    /\ \E c \in Conn : pc[c] = "select" /\ notified[c] = "armed"

(***************************************************************************)
(* SpecDump: an authenticated connection that sets its info, its cursor    *)
(* and its colour and inserts into the text, and one that arrives at any   *)
(* time and listens.                                                       *)
(***************************************************************************)
DumpFrames == 3

InitDump == \E doc \in SeedDocs : InitSession(doc, DumpFrames)

NextDump ==
    \/ \E c \in Conn :
        \/ Connect(c, Some("u@x"))
        \/ Steps(c)
        \/ RecvUpdate(c)
    \/ \E i \in UserInfos : HandleClientInfo(1, i)
    \/ \E d \in CursorInputs : HandleCursorData(1, d)
    \/ \E h \in Hues : HandleSetColor(1, h)
    \/ HandleEdit(1, Len(operations), InsertAt(TLen(text), 0, Run("x", 1)))

SpecDump == InitDump /\ [][NextDump]_vars

\* The messages are the initial dump of connection i with email e in the
\* present state: Identity, AuthenticatedEmail, the whole history if there
\* is any, the language if set, then one UserInfo per user, one UserCursor
\* per cursor and one UserColor per colour.
IsInitialDump(log, i, e) ==
    LET h == IF operations # <<>> THEN 1 ELSE 0
        l == IF language # None THEN 1 ELSE 0
        u == Cardinality(DOMAIN users)
        k == Cardinality(DOMAIN cursors)
        o == Cardinality(DOMAIN user_colors)
    IN  /\ Len(log) = 2 + h + l + u + k + o
        /\ log[1] = Identity(i)
        /\ log[2] = AuthenticatedEmail(e)
        /\ h = 1 => log[3] = History(0, operations)
        /\ l = 1 => log[3 + h] = Language(language[1])
        /\ {log[j] : j \in (3 + h + l)..(2 + h + l + u)}
              = {UserInfoMsg(x, Some(users[x])) : x \in DOMAIN users}
        /\ {log[j] : j \in (3 + h + l + u)..(2 + h + l + u + k)}
              = {UserCursor(x, cursors[x]) : x \in DOMAIN cursors}
        /\ {log[j] : j \in (3 + h + l + u + k)..(2 + h + l + u + k + o)}
              = {UserColor(x, user_colors[x]) : x \in DOMAIN user_colors}

\* C12: the first messages a connection is sent are, in one piece and in
\* this order, its initial dump; every broadcast event and every later
\* History message comes after it.
C12_InitialDumpFirst ==
    [][\A c \in Conn :
          (sent[c] = <<>> /\ sent'[c] # <<>>) =>
              /\ pc[c] = "initial"
              /\ IsInitialDump(sent'[c], id[c], cf_email[c])]_vars

\* C12: a connection has received an initial dump with all seven kinds of
\* message, and then a broadcast event.
C12_Witness ==
    \E c \in Conn :
        /\ Len(sent[c]) = 8
        /\ sent[c][3].type = "History"
        /\ sent[c][4].type = "Language"
        /\ sent[c][5].type = "UserInfo"
        /\ sent[c][6].type = "UserCursor"
        /\ sent[c][7].type = "UserColor"

(***************************************************************************)
(* SpecLeave: connections that end in every way: the socket closes, the    *)
(* session is killed, the receiver has lagged behind, a frame is           *)
(* malformed, an Edit is refused.  A client sends its ClientInfo once.     *)
(***************************************************************************)
LeaveFrames == 3

\* An empty session whose first connection has moved its cursor as often as
\* the channel has room, has read none of these events, and is back in
\* select!.
InitLeave ==
    LET d == CHOOSE x \in CursorInputs : TRUE
    IN  /\ operations = <<>>
        /\ text = <<>>
        /\ language = None
        /\ users = EmptyMap
        /\ cursors = MapInsert(EmptyMap, 0, d)
        /\ user_colors = EmptyMap
        /\ count = 1
        /\ killed = FALSE
        /\ database = FALSE
        /\ notified = [c \in Conn |-> IF c = 1 THEN "armed" ELSE "none"]
        /\ update_rx = [c \in Conn |->
                          IF c = 1
                          THEN [k \in 1..BROADCAST_CAPACITY |-> UserCursor(0, d)]
                          ELSE <<>>]
        /\ pc = [c \in Conn |-> IF c = 1 THEN "select" ELSE "idle"]
        /\ id = [c \in Conn |-> 0]
        /\ cf_email = [c \in Conn |-> None]
        /\ revision = [c \in Conn |-> 0]
        /\ result = [c \in Conn |-> "running"]
        /\ sent = [c \in Conn |->
                     IF c = 1 THEN <<Identity(0), AuthenticatedEmail(None)>>
                     ELSE <<>>]
        /\ kill_pc = "idle"
        /\ persist_pc = "check"
        /\ persist_rev = 0
        /\ last_revision = 0
        /\ stored = None
        /\ color_tasks = {}
        /\ db_colors = EmptyMap
        /\ frames = LeaveFrames
        /\ edit_lock = EmptyMap
        /\ outgoing = [c \in Conn |-> None]
        /\ SessionAcquired

NextLeave ==
    \/ \E c \in Conn :
        \/ Connect(c, EmailOf(c))
        \/ SendInitial(c)
        \/ Arm(c)
        \/ CheckKilled(c)
        \/ CheckRevision(c)
        \/ Wake(c)
        \/ RecvUpdate(c)
        \/ Lagged(c)
        \/ Teardown(c)
        \/ SocketClosed(c)
        \/ HandleMalformed(c)
        \/ HandleEdit(c, Len(operations) + 1, InsertAt(0, 0, Run("x", 1)))
        \/ \E i \in UserInfos : id[c] \notin DOMAIN users /\ HandleClientInfo(c, i)
        \/ \E d \in CursorInputs : HandleCursorData(c, d)
    \/ KillStore
    \/ KillNotify

SpecLeave == InitLeave /\ [][NextLeave]_vars

\* The event the step has added to the receiver of a handler, if any.
Received(d) ==
    IF Len(update_rx'[d]) > Len(update_rx[d])
    THEN {update_rx'[d][Len(update_rx'[d])]} ELSE {}

\* C13: once on_connection is over, however handle_connection has ended,
\* the id of the connection has no entry in users or cursors; the step that
\* ends it publishes UserInfo{id, None} once, and no other step publishes
\* that event.
C13_ConnectionCleanup ==
    [][\A c \in Conn :
          /\ (pc'[c] = "done") =>
                /\ id'[c] \notin DOMAIN users'
                /\ id'[c] \notin DOMAIN cursors'
          /\ (pc[c] = "leave" /\ pc'[c] = "done") =>
                update_rx' = Publish(UserInfoMsg(id[c], None))
          /\ (pc[c] \notin {"idle", "leave"}) =>
                \A d \in Conn : UserInfoMsg(id[c], None) \notin Received(d)
          /\ (result'[c] # "running") =>
                pc'[c] \in {"remove_user", "remove_cursor", "leave", "done"}]_vars

\* C13: a connection that had stored its cursor has gone after it lagged,
\* and the other one after another end.
C13_Witness ==
    \E c \in Conn : \E d \in Conn :
        /\ pc[c] = "done" /\ result[c] = "Lagged"
        /\ pc[d] = "done" /\ result[d] # "Lagged"
        /\ users = EmptyMap
        /\ cursors = EmptyMap

(***************************************************************************)
(* C14: the ids of the connections of a session are pairwise distinct and  *)
(* strictly increasing in the order in which the connections start: the    *)
(* connection that starts when k connections have started before it gets   *)
(* the id k.  Checked on every step on which a connection starts.          *)
(***************************************************************************)
Started == {d \in Conn : pc[d] # "idle"}

C14_IdsCountConnections ==
    [][\A c \in Conn :
         (pc[c] = "idle" /\ pc'[c] # "idle") =>
             /\ id'[c] = Cardinality(Started)
             /\ \A d \in Started : id[d] < id'[c]]_vars

\* Both connections have started, and each has been told its id.
C14_Witness ==
    /\ Started = Conn
    /\ count = 2
    /\ sent[1] # <<>> /\ sent[1][1] = Identity(0)
    /\ sent[2] # <<>> /\ sent[2][1] = Identity(1)

(***************************************************************************)
(* C15: an Edit whose revision r is at most the length n of the history    *)
(* is rebased against operations[r], ..., operations[n - 1] in that order, *)
(* keeping the first component of each transform, and the result is what   *)
(* is applied and appended.  With the text "ab" at revision 1, once        *)
(* A = [retain 1, insert "X", retain 1] has been committed,                *)
(* B = [retain 2, insert "Y"], also based on revision 1, is committed as   *)
(* [retain 3, insert "Y"]: the text is "aXbY" and the revision is 3.       *)
(***************************************************************************)
\* The operation after it has been carried over the revisions r + 1 .. n.
RECURSIVE Carried(_, _, _)
Carried(operation, r, n) ==
    IF n <= r THEN operation
    ELSE Transform(Carried(operation, r, n - 1), operations[n].operation).a

OpA == Op(<<Retain(1), Insert(Run("X", 1)), Retain(1)>>)
OpB == Op(<<Retain(2), Insert(Run("Y", 1))>>)
TextAB == Run("a", 1) \o Run("b", 1)
TextAXBY == Run("a", 1) \o Run("X", 1) \o Run("b", 1) \o Run("Y", 1)

C15_RebasedInOrder ==
    [][\A c \in Conn : (pc[c] = "select" /\ frames' # frames) =>
        \A m \in OTEdits(c) :
          HandleEdit(c, m.revision, m.operation) =>
            LET rebased == Carried(m.operation, m.revision, Len(operations))
            IN  /\ pc'[c] = "notify"
                /\ operations' = Append(operations, UserOperation(id[c], rebased, cf_email[c]))
                /\ text' = Apply(rebased, text).text
                /\ (/\ m = Edit(1, OpB)
                    /\ Len(operations) = 2
                    /\ TextAt(1) = TextAB
                    /\ operations[2].operation = OpA)
                   => /\ rebased = Op(<<Retain(3), Insert(Run("Y", 1))>>)
                      /\ text' = TextAXBY
                      /\ Len(operations') = 3]_vars

\* The example: A and B were both sent for "ab" at revision 1, A arrived
\* first, and B stands in the history carried over A.
C15_Witness ==
    /\ Len(operations) = 3
    /\ TextAt(1) = TextAB
    /\ operations[2].operation = OpA
    /\ operations[3].operation = Op(<<Retain(3), Insert(Run("Y", 1))>>)
    /\ operations[3].id # operations[2].id
    /\ text = TextAXBY

(***************************************************************************)
(* SpecIndex: the document "hello"; the connections report cursors and     *)
(* selections, and the first one edits at either end of the text.          *)
(***************************************************************************)
IndexFrames == 3

TextHello == Run("h", 1) \o Run("e", 1) \o Run("l", 2) \o Run("o", 1)

IndexCursors ==
    {[cursors |-> <<5>>, selections |-> <<<<0, 5>>>>],
     [cursors |-> <<0, 2>>, selections |-> <<>>]}

IndexOps(len) ==
    {InsertAt(len, 0, Run("X", 2)), InsertAt(len, len, Run("X", 2))}
        \cup {DeleteAt(len, 1) : z \in {1} \cap 1..(len - 1)}

InitIndex == InitSession(Some(Doc(TextHello, None)), IndexFrames)

NextIndex ==
    \/ \E c \in Conn :
        \/ Loop(c)
        \/ RecvUpdate(c)
        \/ \E d \in IndexCursors : HandleCursorData(c, d)
    \/ \E o \in IndexOps(TLen(text)) : HandleEdit(1, Len(operations), o)

SpecIndex == InitIndex /\ [][NextIndex]_vars

(***************************************************************************)
(* C16: the step that appends an operation to the history also replaces    *)
(* every stored cursor, and both ends of every stored selection, by        *)
(* transform_index of the appended operation and the old offset.  With     *)
(* the text "hello" and a cursor at 5, [insert "XX", retain 5] moves the   *)
(* cursor to 7.                                                            *)
(***************************************************************************)
C16_CursorsFollowCommit ==
    [][operations' # operations =>
        LET op == operations'[Len(operations')].operation
        IN  /\ operations' = Append(operations, operations'[Len(operations')])
            /\ DOMAIN cursors' = DOMAIN cursors
            /\ \A k \in DOMAIN cursors :
                 /\ DOMAIN cursors'[k].cursors = DOMAIN cursors[k].cursors
                 /\ \A i \in DOMAIN cursors[k].cursors :
                      cursors'[k].cursors[i] =
                          transform_index(op, cursors[k].cursors[i])
                 /\ DOMAIN cursors'[k].selections = DOMAIN cursors[k].selections
                 /\ \A i \in DOMAIN cursors[k].selections :
                      /\ cursors'[k].selections[i][1] =
                             transform_index(op, cursors[k].selections[i][1])
                      /\ cursors'[k].selections[i][2] =
                             transform_index(op, cursors[k].selections[i][2])
                 /\ (/\ text = TextHello
                     /\ op = Op(<<Insert(Run("X", 2)), Retain(5)>>)
                     /\ cursors[k].cursors = <<5>>)
                    => cursors'[k].cursors = <<7>>]_vars

\* The example: the cursor at the end of "hello" and the selection of all of
\* it after "XX" was inserted in front, next to cursors of the other
\* connection.
C16_Witness ==
    /\ text = Run("X", 2) \o TextHello
    /\ Len(operations) = 2
    /\ DOMAIN cursors = {0, 1}
    /\ cursors[0] = [cursors |-> <<7>>, selections |-> <<<<2, 7>>>>]
    /\ cursors[1] = [cursors |-> <<2, 4>>, selections |-> <<>>]

(***************************************************************************)
(* SpecPersist: the persister of a session whose one client appends to     *)
(* the text, while the clock runs and the cleaner does its passes.  The    *)
(* store may fail or succeed at every call.                                *)
(***************************************************************************)
PersistFrames == 2

InitPersist == \E doc \in SeedDocs : InitSession(doc, PersistFrames)

NextPersist ==
    \/ Upgrade(1)
    \/ Steps(1)
    \/ Teardown(1)
    \/ HandleEdit(1, Len(operations), InsertAt(TLen(text), TLen(text), Run("x", 1)))
    \/ PersistCheck
    \/ PersistTick
    \/ \E ok \in BOOLEAN : PersistStore(ok)
    \/ Tick
    \/ CleanerCollect
    \/ CleanerRemove
    \/ DropDocument
    \/ KillNotify

SpecPersist == InitPersist /\ [][NextPersist]_vars

\* This persister has stored successfully, and its last successful store
\* holds the present text.  The client only appends, so this is the case
\* exactly when no Edit has been committed since the snapshot of that store
\* was taken.
Covered == last_revision > 0 /\ stored # None /\ stored[1].text = text

(***************************************************************************)
(* C17: the persister goes on to call store only on a tick on which the    *)
(* revision differs from the one it has recorded, and not again after a    *)
(* successful store until another Edit has been committed; the recorded   *)
(* revision changes only when a store has succeeded.                       *)
(***************************************************************************)
C17_StoreOnlyAfterEdit ==
    [][/\ (persist_pc = "sleep" /\ persist_pc' = "store") =>
              /\ Len(operations) # last_revision
              /\ ~Covered
       /\ last_revision' # last_revision =>
              /\ persist_pc = "store"
              /\ stored' = Some(snapshot)
              /\ last_revision' = persist_rev]_vars

(***************************************************************************)
(* FairPersist: SpecPersist where the tasks of the server run on and the   *)
(* store recovers: the persister is never stopped at a step of its own,    *)
(* and a store that is called again and again succeeds in the end.         *)
(***************************************************************************)
FairPersist ==
    /\ InitPersist
    /\ [][NextPersist]_vars
    /\ HandlerFairness
    /\ WF_vars(PersistCheck)
    /\ WF_vars(PersistTick)
    /\ WF_vars(\E ok \in BOOLEAN : PersistStore(ok))
    /\ SF_vars(PersistStore(TRUE))
    /\ WF_vars(DropDocument)
    /\ WF_vars(KillNotify)

(***************************************************************************)
(* C18: every Edit that is committed is, at some later time, part of the   *)
(* text of a snapshot that a store call has saved successfully.            *)
(***************************************************************************)
C18_EventualPersistence ==
    \A n \in 1..(PersistFrames + 1) :
        (Len(operations) >= n /\ operations[n].id # U64_MAX)
            ~> (/\ Len(operations) >= n
                /\ stored # None
                /\ TTake(stored[1].text, TLen(TextAt(n))) = TextAt(n))

(***************************************************************************)
(* SpecRegistry: the registry alone.  Clients ask for the document, it is  *)
(* deleted, the clock runs, and the cleaner does its passes.               *)
(***************************************************************************)
InitSpecRegistry == InitRustpad(None, 0) /\ InitRegistry

NextRegistry ==
    \/ \E k \in DocIds : Acquire(k) \/ DeleteDocument(k)
    \/ Tick
    \/ CleanerCollect
    \/ CleanerRemove
    \/ DropDocument
    \/ KillNotify

SpecRegistry == InitSpecRegistry /\ [][NextRegistry]_vars

(***************************************************************************)
(* C19: the calls of socket_handler for an id between two removals of its  *)
(* entry all get the same session, and one persister is spawned for each   *)
(* session; the registry never holds more than the one entry per id, with  *)
(* the session that was returned; and every call leaves the entry with     *)
(* last_accessed at the time of the call.                                  *)
(***************************************************************************)
C19_OneSessionPerId ==
    /\ [](/\ Cardinality(returned) <= 1
          /\ Len(persisters) = created
          /\ \A s \in 1..created : persisters[s] = 1
          /\ \A k \in DocIds :
                 returned # {} => (k \in DOMAIN documents
                                   /\ returned = {documents[k].rustpad}))
    /\ [][\A k \in DocIds :
            returned' \ returned # {} \/ acquired' # acquired =>
                /\ k \in DOMAIN documents'
                /\ documents'[k].last_accessed = now
                /\ returned' = {documents'[k].rustpad}
                /\ k \in DOMAIN documents =>
                       /\ documents'[k].rustpad = documents[k].rustpad
                       /\ persisters' = persisters]_vars

\* Two calls have got the first session, whose entry was last accessed at
\* the later call; one persister runs for it.
C19_Witness ==
    /\ acquired = 2
    /\ returned = {1}
    /\ persisters = <<1>>
    /\ now = 1
    /\ documents["doc"] = [last_accessed |-> 1, rustpad |-> 1]

(***************************************************************************)
(* C20: the cleaner removes an entry only if, at the moment of the         *)
(* removal, the entry has not been accessed for longer than the expiry.    *)
(***************************************************************************)
C20_RemovesOnlyExpired ==
    [][(cleaner_pc = "remove" /\ cleaner_pc' = "sleep") =>
          \A k \in DOMAIN documents \ DOMAIN documents' :
              now - documents[k].last_accessed > Expiry]_vars

(***************************************************************************)
(* SpecColor: clients that set their colour, one anonymous and one         *)
(* authenticated, while the store saves the colours, the cleaner evicts    *)
(* the session, and socket_handler creates it again.                       *)
(***************************************************************************)
ColorFrames == 2

\* socket_handler for an id whose entry was removed, once the tasks of the
\* session before are over: the new Rustpad is built from what the store
\* holds, as the first one was, and it is the one modelled from here on.
Recreate(k) ==
    LET s == IF stored = None THEN default_state ELSE from_document(stored[1])
    IN  /\ k \notin DOMAIN documents
        /\ 1 \in dropped
        /\ created < MaxSessions
        /\ kill_pc = "done"
        /\ persist_pc = "exit"
        /\ color_tasks = {}
        /\ \A c \in Conn : pc[c] \in {"idle", "done"}
        /\ operations' = s.operations
        /\ text' = s.text
        /\ language' = s.language
        /\ users' = EmptyMap
        /\ cursors' = EmptyMap
        /\ user_colors' = EmptyMap
        /\ count' = 0
        /\ killed' = FALSE
        /\ database' = (stored # None)
        /\ notified' = [c \in Conn |-> "none"]
        /\ update_rx' = [c \in Conn |-> <<>>]
        /\ pc' = [c \in Conn |-> "idle"]
        /\ id' = [c \in Conn |-> 0]
        /\ cf_email' = [c \in Conn |-> None]
        /\ revision' = [c \in Conn |-> 0]
        /\ result' = [c \in Conn |-> "running"]
        /\ sent' = [c \in Conn |-> <<>>]
        /\ kill_pc' = "idle"
        /\ persist_pc' = "check"
        /\ persist_rev' = 0
        /\ last_revision' = 0
        /\ created' = created + 1
        /\ persisters' = Append(persisters, 1)
        /\ documents' = MapInsert(documents, k, Document(1))
        /\ returned' = {1}
        /\ acquired' = NConn
        /\ dropped' = dropped \ {1}
        /\ UNCHANGED <<stored, color_tasks, db_colors, frames, now, cleaner_pc,
                       keys, edit_lock, outgoing>>

InitColor == \E doc \in SeedDocs : InitSession(doc, ColorFrames)

NextColor ==
    \/ \E c \in Conn :
        \/ Upgrade(c)
        \/ SendInitial(c)
        \/ Arm(c)
        \/ CheckKilled(c)
        \/ CheckRevision(c)
        \/ Wake(c)
        \/ RecvUpdate(c)
        \/ Teardown(c)
        \/ \E h \in Hues : HandleSetColor(c, h)
    \/ \E task \in color_tasks : \E ok \in BOOLEAN : SaveUserColor(task, ok)
    \/ PersistCheck
    \/ PersistTick
    \/ \E ok \in BOOLEAN : PersistStore(ok)
    \/ Tick
    \/ CleanerCollect
    \/ CleanerRemove
    \/ DropDocument
    \/ KillNotify
    \/ \E k \in DocIds : Recreate(k)

SpecColor == InitColor /\ [][NextColor]_vars

(***************************************************************************)
(* C21: a SetColor frame of a connection without an authenticated email    *)
(* changes nothing: the state of the session, user_colors included, is as  *)
(* before, no event is published, no write to the store is issued, and the *)
(* handler goes on with its loop.                                          *)
(***************************************************************************)
C21_AnonymousSetColorIgnored ==
    [][\A c \in Conn :
         (pc[c] = "select" /\ cf_email[c] = None /\ frames' # frames) =>
             \A h \in Hues :
                 HandleSetColor(c, h) =>
                     /\ state' = state
                     /\ update_rx' = update_rx
                     /\ sent' = sent
                     /\ color_tasks' = color_tasks
                     /\ db_colors' = db_colors
                     /\ stored' = stored
                     /\ pc'[c] = "arm"
                     /\ result'[c] = "running"]_vars

\* The anonymous connection is the only one there has been, a frame of it
\* has been handled, and it is still in its loop with no colour stored.
C21_Witness ==
    /\ created = 1
    /\ pc[1] = "select"
    /\ cf_email[1] = None
    /\ pc[2] = "idle"
    /\ frames < ColorFrames
    /\ user_colors = EmptyMap
    /\ color_tasks = {}
    /\ db_colors = EmptyMap

(***************************************************************************)
(* C22: a SetColor(h) of a connection authenticated as e sets              *)
(* user_colors[e], publishes UserColor{e, h} and issues the write of the   *)
(* colour to the store, whichever way the session was created; and the     *)
(* initial dump of every connection holds UserColor{e, h} for every        *)
(* colour the store holds, also in a session created after the one that    *)
(* wrote the colour was killed.                                            *)
(***************************************************************************)
C22_ColorPersists ==
    [][\A c \in Conn :
         /\ (pc[c] = "select" /\ cf_email[c] # None /\ frames' # frames) =>
               \A h \in Hues :
                   HandleSetColor(c, h) =>
                       /\ cf_email[c][1] \in DOMAIN user_colors'
                       /\ user_colors'[cf_email[c][1]] = h
                       /\ update_rx' = Publish(UserColor(cf_email[c][1], h))
                       /\ <<cf_email[c][1], h>> \in color_tasks'
         /\ (sent[c] = <<>> /\ sent'[c] # <<>>) =>
               \A e \in DOMAIN db_colors :
                   \E i \in DOMAIN sent'[c] :
                       sent'[c][i] = UserColor(e, db_colors[e])]_vars

(***************************************************************************)
(* C23: a handler whose receiver is more than 16 events behind is given    *)
(* no event any more: its receive fails and handle_connection returns.     *)
(* A client whose frame is being read can publish however far the          *)
(* receivers are behind; every event is queued for every subscribed        *)
(* handler in the step that publishes it, and a handler that is not        *)
(* lagging forwards its events oldest first.                               *)
(***************************************************************************)
Lagging(c) == Len(update_rx[c]) > BROADCAST_CAPACITY

C23_LagEndsOnlyTheSlow ==
    /\ [](\A c \in Conn :
            (pc[c] = "select" /\ frames > 0) =>
                \A d \in CursorInputs : ENABLED HandleCursorData(c, d))
    /\ [][\A c \in Conn :
            /\ (pc[c] = "select" /\ Lagging(c) /\ update_rx'[c] # update_rx[c]) =>
                   \/ update_rx'[c] = <<>> /\ result'[c] # "running"
                                           /\ pc'[c] = "remove_user"
                   \/ Len(update_rx'[c]) > Len(update_rx[c]) /\ sent'[c] = sent[c]
            /\ (result'[c] = "Lagged" /\ result[c] # "Lagged") => Lagging(c)
            /\ (pc[c] = "select" /\ ~Lagging(c)
                   /\ Len(update_rx'[c]) < Len(update_rx[c])
                   /\ result'[c] = "running") =>
                   /\ sent'[c] = Append(sent[c], Head(update_rx[c]))
                   /\ update_rx'[c] = Tail(update_rx[c])
            /\ \A m \in Received(c) :
                   \A d \in Conn :
                       Subscribed(d) => update_rx'[d] = Append(update_rx[d], m)]_vars

\* The first connection has gone after it lagged, and the second one, still
\* in its loop, has forwarded the event that tells that the first has left.
C23_Witness ==
    /\ pc[1] = "done"
    /\ result[1] = "Lagged"
    /\ pc[2] \in {"arm", "check_killed", "check_revision", "select"}
    /\ result[2] = "running"
    /\ sent[2] # <<>>
    /\ sent[2][Len(sent[2])] = UserInfoMsg(0, None)

(***************************************************************************)
(* SpecLock: apply_edit in its two parts, the reading under the            *)
(* upgradable read lock and the writing after the upgrade, for two         *)
(* clients that edit at every position of every revision while cursors     *)
(* are reported.  Who writes the state waits until the lock is free.       *)
(***************************************************************************)
LockFrames == 2

InitLock == \E doc \in SeedDocs : InitSession(doc, LockFrames)

NextLock ==
    \E c \in Conn :
        \/ Loop(c)
        \/ \E m \in OTEdits(c) : EditRead(c, m.revision, m.operation)
        \/ EditWrite(c)
        \/ \E d \in CursorInputs : LockFree /\ HandleCursorData(c, d)

SpecLock == InitLock /\ [][NextLock]_vars

(***************************************************************************)
(* C24: at most one apply_edit is between its reading of the history and   *)
(* its push; while it is, nothing else appends an operation or changes     *)
(* the text; so the base length of every operation of the history is the   *)
(* length of the text that the operations before it produce.               *)
(***************************************************************************)
C24_EditsSerialized ==
    /\ [](/\ Cardinality(DOMAIN edit_lock) <= 1
          /\ \A k \in DOMAIN operations :
                 base_len(operations[k].operation) = TLen(TextAt(k - 1))
          /\ Replay(operations).ok
          /\ Replay(operations).text = text)
    /\ [][\A c \in DOMAIN edit_lock :
            \/ operations' = operations /\ text' = text
            \/ /\ pc'[c] = "notify"
               /\ operations' = Append(operations, edit_lock[c].operation)
               /\ text' = edit_lock[c].new_text
               /\ base_len(edit_lock[c].operation.operation) = TLen(text)]_vars

\* An apply_edit holds the lock with an operation it has rebased over the
\* edit of the other client, which was committed last.
C24_Witness ==
    \E c \in Conn : \E d \in Conn \ {c} :
        /\ pc[c] = "commit"
        /\ c \in DOMAIN edit_lock
        /\ pc[d] \in {"notify", "arm", "check_killed", "check_revision",
                      "send_history", "select"}
        /\ operations # <<>>
        /\ operations[Len(operations)].id = id[d]
        /\ edit_lock[c].operation.id = id[c]
        /\ base_len(edit_lock[c].operation.operation) = TLen(text)

(***************************************************************************)
(* C25: once the session is killed its persister goes on to no further    *)
(* store call, and it terminates.                                          *)
(***************************************************************************)
C25_NoStoreAfterKill ==
    /\ [][killed => ~(persist_pc = "sleep" /\ persist_pc' = "store")]_vars
    /\ (killed ~> persist_pc = "exit")

(***************************************************************************)
(* SpecLanguage: two clients that set the language, each to its own, with  *)
(* the write of the language and the send of the event as the two          *)
(* statements they are.                                                    *)
(***************************************************************************)
LanguageFrames == 2

LanguageOf(c) == IF c = 1 THEN "rust" ELSE "go"

InitLanguage == InitSession(None, LanguageFrames)

NextLanguage ==
    \E c \in Conn :
        \/ Connect(c, EmailOf(c))
        \/ SendInitial(c)
        \/ Arm(c)
        \/ CheckKilled(c)
        \/ CheckRevision(c)
        \/ RecvUpdate(c)
        \/ SetLanguageWrite(c, LanguageOf(c))
        \/ SetLanguageSend(c)

SpecLanguage == InitLanguage /\ [][NextLanguage]_vars

\* The Language messages sent to a connection, in the order they were sent.
IsLanguage(msg) == msg.type = "Language"
LanguagesSent(c) == SelectSeq(sent[c], IsLanguage)

\* Every SetLanguage has been handled, and every event has been delivered.
Settled ==
    \A c \in Conn : outgoing[c] = None /\ pc[c] # "send" /\ update_rx[c] = <<>>

(***************************************************************************)
(* C26: once every SetLanguage has been handled and every event has been   *)
(* delivered, the last Language message each connection was sent carries   *)
(* the language of the state.                                              *)
(***************************************************************************)
C26_LanguageAgrees ==
    Settled =>
        \A c \in Conn :
            (Subscribed(c) /\ LanguagesSent(c) # <<>>) =>
                language = Some(LanguagesSent(c)[Len(LanguagesSent(c))].language)

(***************************************************************************)
(* FairSnapshot: a session that is not killed, with a store that never     *)
(* fails.  One client appends to the text and sets the language; the       *)
(* persister and the handler run on.                                       *)
(***************************************************************************)
SnapshotFrames == 2

InitSnapshot == \E doc \in SeedDocs : InitSession(doc, SnapshotFrames)

NextSnapshot ==
    \/ Upgrade(1)
    \/ SendInitial(1)
    \/ Arm(1)
    \/ CheckKilled(1)
    \/ CheckRevision(1)
    \/ SendHistory(1)
    \/ NotifyEdit(1)
    \/ RecvUpdate(1)
    \/ HandleEdit(1, Len(operations), InsertAt(TLen(text), TLen(text), Run("x", 1)))
    \/ \E l \in Languages : HandleSetLanguage(1, l)
    \/ PersistCheck
    \/ PersistTick
    \/ PersistStore(TRUE)

FairSnapshot ==
    /\ InitSnapshot
    /\ [][NextSnapshot]_vars
    /\ HandlerFairness
    /\ WF_vars(PersistCheck)
    /\ WF_vars(PersistTick)
    /\ WF_vars(PersistStore(TRUE))

(***************************************************************************)
(* C27: in the end, and from then on, the store holds the snapshot of the  *)
(* session, text and language; a document that no message has ever         *)
(* changed may be missing from the store.                                  *)
(***************************************************************************)
C27_StoreCatchesUp ==
    <>[](\/ stored = Some(snapshot)
         \/ stored = None /\ operations = <<>> /\ language = None)

====
